---- MODULE Spec2Model ----
(***************************************************************************)
(* The in-memory analysis cache of the backend (backend/cache.py,          *)
(* AnalysisCache) and the request handlers of backend/main.py that use it: *)
(* /analyze (get -> external analysis -> set), the status endpoints that   *)
(* read stats(), and /cache/clear.                                         *)
(*                                                                         *)
(* Every request is one thread of control.  A handler is cut into steps at *)
(* the acquisition and the release of the cache lock and at every          *)
(* statement of a critical section, so that everything the lock has to     *)
(* exclude is an interleaving of the model.                                *)
(***************************************************************************)
EXTENDS Integers, Sequences, FiniteSets, TLC

\* ------------------------------------------------------------------ bounds
NumWorkers == 2
MaxRequests == 3
MaxSeqRequests == 4
MaxTime == 2
MaxTtl == 1
MaxCapacity == 2
SampleWindow == 2
MaxByte == 2
MaxApiCalls == 4
MaxKeyCalls == 2
MaxApiCapacity == 3
MaxInvalidCalls == 3
NumClients == 2
MaxRateCalls == 5
MaxRateTime == 4
MaxGeminiCalls == 2
NumErrors == 3
NumTexts == 2
NumUsers == 2
MaxDay == 1
MaxUserRequests == 2

\* settings.RATE_LIMIT_REQUESTS (from the environment) and
\* settings.RATE_LIMIT_WINDOW, in ticks of the clock
RATE_LIMIT_REQUESTS == 2
RATE_LIMIT_WINDOW == 2

\* settings.GEMINI_MAX_RETRIES
GEMINI_MAX_RETRIES == 2

Workers == 1..NumWorkers

\* `None`, as returned by get on a miss; analysis results are numbered from 1
None == 0

\* threading.Lock(), not held; the workers are numbered from 1
Unlocked == 0

Min(a, b) == IF a < b THEN a ELSE b
Max(a, b) == IF a > b THEN a ELSE b

\* ------------------------------------------------------- key generation
\* image_bytes[:n]
SliceHead(b, n) == SubSeq(b, 1, Min(n, Len(b)))

\* mutant: the last n bytes are taken only from an image that has more
SliceTailOfLonger(b, n) == IF Len(b) > n THEN SubSeq(b, Len(b) - n + 1, Len(b)) ELSE <<>>

\* image_bytes[-n:]  (n > 0): the last n bytes, the whole string when shorter
SliceTail(b, n) == SubSeq(b, Max(1, Len(b) - n + 1), Len(b))

\* mutant: the whole image is hashed
ImageSampleWhole(image_bytes) == image_bytes

\* mutant: the last bytes are taken from what the first window has left
ImageSampleNoOverlap(image_bytes) ==
    SliceHead(image_bytes, SampleWindow)
        \o SliceTail(SubSeq(image_bytes, SampleWindow + 1, Len(image_bytes)), SampleWindow)

ImageSample(image_bytes) ==
    SliceHead(image_bytes, SampleWindow) \o SliceTail(image_bytes, SampleWindow)

\* hashlib.md5(...).hexdigest(): a digest, equal exactly for equal inputs;
\* collisions of md5 itself are not modelled
Md5(data) == [digest |-> data]

\* the order of the field names under json.dumps(sort_keys=True)
FieldRank(name) ==
    CASE name = "age" -> 1
      [] name = "diet" -> 2
      [] name = "gender" -> 3
      [] name = "height" -> 4
      [] name = "weight" -> 5

RECURSIVE InsertSorted(_, _)
InsertSorted(item, sorted) ==
    IF sorted = <<>> THEN <<item>>
    ELSE IF FieldRank(item[1]) <= FieldRank(Head(sorted)[1])
         THEN <<item>> \o sorted
         ELSE <<Head(sorted)>> \o InsertSorted(item, Tail(sorted))

\* mutant: the items are written in their insertion order (sort_keys=False)
JsonDumpsUnsorted(user_data) == user_data

\* json.dumps(user_data, sort_keys=True): the items of the dict (a sequence
\* of <<name, value>> in insertion order) written in the order of their names
RECURSIVE JsonDumps(_)
JsonDumps(user_data) ==
    IF user_data = <<>> THEN <<>>
    ELSE InsertSorted(Head(user_data), JsonDumps(Tail(user_data)))

\* a value json.dumps has no encoding for (bytes, a set, an object)
NotJson == -1

\* json.dumps(user_data, sort_keys=True) returns: every value has an encoding;
\* otherwise it raises TypeError
Serializable(user_data) == \A i \in 1..Len(user_data) : user_data[i][2] /= NotJson

\* f"{image_hash}_{user_hash}"
GenerateKey(image_bytes, user_data) ==
    <<Md5(ImageSample(image_bytes)), Md5(JsonDumps(user_data))>>

\* ------------------------------------------------------------- requests
\* the form values are written as small codes
ProfileP ==
    << <<"age", 3>>, <<"gender", 1>>, <<"height", 5>>, <<"weight", 6>>, <<"diet", 2>> >>

\* the items of ProfileP, inserted in another order
ProfileP2 ==
    << <<"diet", 2>>, <<"weight", 6>>, <<"height", 5>>, <<"gender", 1>>, <<"age", 3>> >>

ProfileQ ==
    << <<"age", 4>>, <<"gender", 1>>, <<"height", 5>>, <<"weight", 6>>, <<"diet", 2>> >>

\* a profile that a direct caller of the cache passes with a value that
\* cannot be serialized
ProfileBad ==
    << <<"age", NotJson>>, <<"gender", 1>>, <<"height", 5>>, <<"weight", 6>>, <<"diet", 2>> >>

\* the (image, user) form data of the /analyze requests that are sent
Requests ==
    << [image |-> <<1>>, user_data |-> ProfileP],
       [image |-> <<1>>, user_data |-> ProfileP2],
       [image |-> <<2, 1>>, user_data |-> ProfileP],
       [image |-> <<1>>, user_data |-> ProfileQ],
       [image |-> <<>>, user_data |-> ProfileP] >>

RequestIds == 1..Len(Requests)

RequestForms == {Requests[i] : i \in RequestIds}

\* the bytes of the images the cache is called with directly
Bytes == 1..MaxByte

MaxImageLen == 2 * SampleWindow + 1

\* every byte string of up to MaxImageLen bytes
Images == UNION {[1..n -> Bytes] : n \in 0..MaxImageLen}

Ones(n) == [i \in 1..n |-> 1]

\* the images the cache is called with: one of every length, the empty one
\* and those shorter than the windows included, and one that differs from
\* the longest in the byte between the windows
KeyImages ==
    {Ones(n) : n \in 0..MaxImageLen}
        \cup {[Ones(MaxImageLen) EXCEPT ![SampleWindow + 1] = MaxByte]}

ApiForms == [image : KeyImages, user_data : {ProfileP, ProfileP2, ProfileQ}]

\* the arguments of the calls of a caller that also passes ProfileBad
InvalidForms == [image : {<<1>>}, user_data : {ProfileP, ProfileQ, ProfileBad}]

NoRequest == [image |-> <<>>, user_data |-> <<>>]

NoKey == <<>>

\* ------------------------------------------------------------ result dicts
\* the items of the dict that is passed to set (main.py 226-238): what the
\* model returned, with "status", "score" and "image_info"
ResultItems == {"analysis", "status", "score", "image_info"}

\* the dict that main.py 260-308 builds when the analysis failed
Fallback == -1

\* ------------------------------------------------- OrderedDict operations
Keys(c) == {c[i].key : i \in 1..Len(c)}

Contains(c, k) == k \in Keys(c)

IndexOf(c, k) == CHOOSE i \in 1..Len(c) : c[i].key = k

\* self._cache[key]
GetItem(c, k) == c[IndexOf(c, k)]

RemoveAt(c, i) == SubSeq(c, 1, i - 1) \o SubSeq(c, i + 1, Len(c))

\* mutant: the expired entry is not deleted
DelItemSkipped(c, k) == c

\* del self._cache[key]
DelItem(c, k) == RemoveAt(c, IndexOf(c, k))

\* mutant: the hit does not move the entry
MoveToEndSkipped(c, k) == c

\* self._cache.move_to_end(key)
MoveToEnd(c, k) == Append(DelItem(c, k), GetItem(c, k))

\* mutant: a stored key keeps its old entry (setdefault)
SetItemKeepFirst(c, k, entry) == IF Contains(c, k) THEN c ELSE Append(c, entry)

\* mutant: the entry is always added at the end, also for a stored key
SetItemAppend(c, k, entry) == Append(c, entry)

\* self._cache[key] = entry: a stored key keeps its position, a new key is
\* added at the end
SetItem(c, k, entry) ==
    IF Contains(c, k) THEN [c EXCEPT ![IndexOf(c, k)] = entry] ELSE Append(c, entry)

\* ---------------------------------------------------------------- state
VARIABLES
    max_size,   \* AnalysisCache.max_size
    ttl,        \* AnalysisCache.ttl
    cache,      \* AnalysisCache._cache: entries, least recently used first
    hits,       \* AnalysisCache._hits
    misses,     \* AnalysisCache._misses
    lock,       \* AnalysisCache._lock: the worker inside `with self._lock`, or Unlocked
    now,        \* time.time()
    pc,         \* the statement each worker is at
    handler,    \* the endpoint each worker is serving
    req,        \* /analyze: the request's form data (index into Requests)
    key,        \* the local `key` of the get or set the worker is in
    ret,        \* /analyze: cached_result
    analysis,   \* /analyze: analysis, the dict the external call returned
    stats_ret,  \* the dict stats() returned
    next_obj,   \* number of result dicts created so far
    heap,       \* the result dicts: the names of the items of each
    started,    \* number of requests received so far
    snap,       \* history: the cache as the worker found it on taking the lock
    recency,    \* history: every key, in the order of its latest insertion or hit
    last_set,   \* history: the time of the latest set of each key (-1: never)
    re_set,     \* history: some key has been set more than once
    last_op,    \* history: the set or clear that was the latest operation on the cache, if it was one
    gets,       \* history: number of get calls that have returned
    rate_limit_store,  \* main.py rate_limit_store: the timestamps kept for each client IP
    rate_log,   \* history: every call of check_rate_limit: its IP, time and answer
    gemini_pc,  \* call_gemini_with_retry: the statement it is at
    attempt,    \* call_gemini_with_retry: the loop variable
    gemini_ret, \* call_gemini_with_retry: what it returned or raised
    gemini_log, \* history: the attempts and the sleeps of the call, in order
    gemini_calls,  \* history: number of calls of call_gemini_with_retry so far
    today,      \* date.today(), as a number of days
    users,      \* Firestore: the documents of the collection "users"
    scans,      \* Firestore: the documents of the collection "scans", in the order of their creation
    user_id,    \* /analyze: user_id, the uid of the caller, or NoUser
    user_profile,  \* /analyze: user_profile, the document get_user returned
    new_count,  \* increment_scan_count: new_count and today, the update it is about to write
    scan_record,  \* /analyze: scan_record.id, the document save_scan created
    fields,     \* the result dicts: the values of their "_scan_id" and "streak" items
    passed,     \* history: number of requests of each user that passed the tier check on each day
    checked_on  \* history: the day on which the request of the worker went through the tier check

cache_vars == <<cache, hits, misses>>
config_vars == <<max_size, ttl>>
local_vars == <<req, key, ret, analysis, stats_ret>>
history_vars == <<recency, last_set, re_set, last_op>>
rate_vars == <<rate_limit_store, rate_log>>

\* the state of the application outside the cache
retry_vars == <<gemini_pc, attempt, gemini_ret, gemini_log, gemini_calls>>
user_vars == <<today, users, scans, user_id, user_profile, new_count, scan_record, fields, passed,
               checked_on>>
app_vars == <<rate_vars, retry_vars, user_vars>>

vars == <<max_size, ttl, cache, hits, misses, lock, now, pc, handler, req, key,
          ret, analysis, stats_ret, next_obj, heap, started, snap, recency, last_set,
          re_set, last_op, gets, app_vars>>

AllKeys ==
    {GenerateKey(f.image, f.user_data) :
        f \in {g \in RequestForms \cup ApiForms \cup InvalidForms : Serializable(g.user_data)}}

NoStats == [size |-> 0, max_size |-> 0, hits |-> 0, misses |-> 0, hit_rate |-> 0, ttl_seconds |-> 0]

NoOp == [key |-> NoKey, data |-> None, at |-> -1, form |-> NoRequest]

ClearOp == [key |-> NoKey, data |-> None, at |-> -2, form |-> NoRequest]

\* the client IPs of the requests (main.py 101-106)
ClientIps == 1..NumClients

NoSnap == [cache |-> <<>>, hits |-> 0, misses |-> 0, read |-> 0, prev |-> NoOp]

\* main.py 80: rate_limit_store = {}; an IP without an item reads as []
InitRate ==
    /\ rate_limit_store = [ip \in ClientIps |-> <<>>]
    /\ rate_log = <<>>

NoReturn == [kind |-> "none", value |-> 0]

\* no call of call_gemini_with_retry is in progress
InitRetry ==
    /\ gemini_pc = "idle"
    /\ attempt = 0
    /\ gemini_ret = NoReturn
    /\ gemini_log = <<>>
    /\ gemini_calls = 0

\* the uids of the signed-in callers; a caller who is not signed in has
\* current_user None (main.py 141)
UserIds == 1..NumUsers

NoUser == 0

\* last_scan_date and streak_last_scan_date of a user who has not scanned
NoDate == -1

Days == 0..MaxDay

\* tiers.py 12-28: TIER_LIMITS[tier]["scans_per_day"]
ScansPerDay(tier) ==
    CASE tier = "free" -> 3
      [] tier = "pro" -> 50
      [] tier = "unlimited" -> -1

\* users.py 62-71, 174-178 and 275-280: the items of a user document that
\* /analyze reads and writes
UserDoc(tier, scans_today, last_scan_date) ==
    [tier |-> tier, scans_today |-> scans_today, last_scan_date |-> last_scan_date,
     streak_last_scan_date |-> last_scan_date,
     current_streak |-> IF last_scan_date = NoDate THEN 0 ELSE 1,
     longest_streak |-> IF last_scan_date = NoDate THEN 0 ELSE 1]

\* users.py 62-71: the document create_user writes
NewUser == UserDoc("free", 0, NoDate)

NoDoc == UserDoc("none", 0, NoDate)

\* the ids of the result dicts and of the scan documents
ObjectIds == 1..MaxUserRequests

NoUpdate == [scans_today |-> 0, last_scan_date |-> NoDate]

NoStreak == [uid |-> NoUser, current_streak |-> 0, longest_streak |-> 0, streak_extended |-> FALSE]

NoFields == [scan_id |-> 0, streak |-> NoStreak]

\* the users with the documents in docs, no request of theirs in progress;
\* the scans a document counts went through the tier check on its date
InitUsers(docs) ==
    /\ today = 0
    /\ users \in [UserIds -> docs]
    /\ scans = <<>>
    /\ user_id = [w \in Workers |-> NoUser]
    /\ user_profile = [w \in Workers |-> NoDoc]
    /\ new_count = [w \in Workers |-> NoUpdate]
    /\ scan_record = [w \in Workers |-> 0]
    /\ fields = [o \in ObjectIds |-> NoFields]
    /\ passed = [u \in UserIds |->
                    [d \in Days |-> IF users[u].last_scan_date = d THEN users[u].scans_today ELSE 0]]
    /\ checked_on = [w \in Workers |-> NoDate]

\* the application at its start
InitApp == InitRate /\ InitRetry /\ InitUsers({NewUser})

\* AnalysisCache.__init__: any max_size and ttl are accepted
InitCache(capacities) ==
    /\ max_size \in capacities
    /\ ttl \in 0..MaxTtl
    /\ cache = <<>>
    /\ hits = 0
    /\ misses = 0
    /\ lock = Unlocked
    /\ now = 0
    /\ pc = [w \in Workers |-> "idle"]
    /\ handler = [w \in Workers |-> "none"]
    /\ req = [w \in Workers |-> NoRequest]
    /\ key = [w \in Workers |-> NoKey]
    /\ ret = [w \in Workers |-> None]
    /\ analysis = [w \in Workers |-> None]
    /\ stats_ret = [w \in Workers |-> NoStats]
    /\ next_obj = 0
    /\ heap = <<>>
    /\ started = 0
    /\ snap = [w \in Workers |-> NoSnap]
    /\ recency = <<>>
    /\ last_set = [k \in AllKeys |-> -1]
    /\ re_set = FALSE
    /\ last_op = NoOp
    /\ gets = 0

InitWith(capacities) == InitApp /\ InitCache(capacities)

Init == InitWith(0..MaxCapacity)

\* ----------------------------------------------------------------- lock
\* mutant: the block is entered without waiting for the lock
LockIgnored == TRUE

\* `with self._lock:` is entered only while no other thread is inside
LockFree == lock = Unlocked

Acquire(w) ==
    /\ LockFree
    /\ lock' = w
    /\ snap' = [snap EXCEPT ![w] = [cache |-> cache, hits |-> hits, misses |-> misses,
                                    read |-> now, prev |-> last_op]]

\* mutant: the lock is still held after the block
ReleaseKept(w) ==
    /\ lock' = lock
    /\ snap' = [snap EXCEPT ![w] = NoSnap]

Release(w) ==
    /\ lock' = Unlocked
    /\ snap' = [snap EXCEPT ![w] = NoSnap]

\* the worker is back in the event loop, its locals are gone
Finish(w) ==
    /\ pc' = [pc EXCEPT ![w] = "idle"]
    /\ handler' = [handler EXCEPT ![w] = "none"]
    /\ req' = [req EXCEPT ![w] = NoRequest]
    /\ key' = [key EXCEPT ![w] = NoKey]
    /\ ret' = [ret EXCEPT ![w] = None]
    /\ analysis' = [analysis EXCEPT ![w] = None]
    /\ stats_ret' = [stats_ret EXCEPT ![w] = NoStats]

\* mutant: the test is >= instead of >
IsExpiredAtTtl(timestamp, t) == t - timestamp >= ttl

\* mutant: an entry is kept one second longer than ttl
IsExpiredLate(timestamp, t) == t - timestamp > ttl + 1

\* the age of an entry at the time read, against ttl
IsExpired(timestamp, t) == t - timestamp > ttl

\* mutant: the loop of set tests > instead of >=
AtCapacityOffByOne(c) == Len(c) > max_size

\* the loop condition of set
AtCapacity(c) == Len(c) >= max_size

\* mutant: the cached result is not used
IsCachedNever(cached_result) == FALSE

\* `if cached_result:` a stored result always has its "status", "score" and
\* "image_info" items, so it is true exactly when it is not None
IsCached(cached_result) == cached_result /= None

\* history: k has just been inserted or hit
Touch(k) == Append(SelectSeq(recency, LAMBDA x : x /= k), k)

\* ------------------------------------------------------------ /analyze
\* main.py 178-205: a request without image bytes is answered 400 before the
\* cache is looked at
AnalyzeReject(w, r, limit) ==
    /\ pc[w] = "idle"
    /\ started < limit
    /\ r.image = <<>>
    /\ started' = started + 1
    /\ UNCHANGED <<config_vars, app_vars, heap, gets, cache_vars, lock, now, pc, handler, local_vars,
                   next_obj, snap, history_vars>>

\* main.py 208 and cache.py 47: the request is valid, get computes its key
AnalyzeGet(w, r, limit) ==
    /\ pc[w] = "idle"
    /\ started < limit
    /\ r.image /= <<>>
    /\ started' = started + 1
    /\ handler' = [handler EXCEPT ![w] = "analyze"]
    /\ req' = [req EXCEPT ![w] = r]
    /\ key' = [key EXCEPT ![w] = GenerateKey(r.image, r.user_data)]
    /\ pc' = [pc EXCEPT ![w] = "get_lock"]
    /\ UNCHANGED <<config_vars, app_vars, heap, gets, cache_vars, lock, now, ret, analysis, stats_ret,
                   next_obj, snap, history_vars>>

\* cache.py 49
GetAcquire(w) ==
    /\ pc[w] = "get_lock"
    /\ Acquire(w)
    /\ pc' = [pc EXCEPT ![w] = "get_lookup"]
    /\ UNCHANGED <<config_vars, app_vars, heap, gets, cache_vars, now, handler, local_vars, next_obj,
                   started, history_vars>>

\* cache.py 50-52
GetAbsent(w) ==
    /\ pc[w] = "get_lookup"
    /\ ~Contains(cache, key[w])
    /\ misses' = misses + 1
    /\ ret' = [ret EXCEPT ![w] = None]
    /\ pc' = [pc EXCEPT ![w] = "get_unlock"]
    /\ snap' = [snap EXCEPT ![w].read = now]
    /\ last_op' = NoOp
    /\ UNCHANGED <<config_vars, app_vars, heap, gets, cache, hits, lock, now, handler, req, key, analysis,
                   stats_ret, next_obj, started, recency, last_set, re_set>>

\* mutant: a get that finds its entry expired is not counted
GetExpiredUncounted(w) ==
    /\ pc[w] = "get_lookup"
    /\ Contains(cache, key[w])
    /\ IsExpired(GetItem(cache, key[w]).timestamp, now)
    /\ cache' = DelItem(cache, key[w])
    /\ ret' = [ret EXCEPT ![w] = None]
    /\ snap' = [snap EXCEPT ![w].read = now]
    /\ pc' = [pc EXCEPT ![w] = "get_unlock"]
    /\ last_op' = NoOp
    /\ UNCHANGED <<config_vars, app_vars, heap, gets, hits, misses, lock, now, handler, req, key,
                   analysis, stats_ret, next_obj, started, recency, last_set, re_set>>

\* cache.py 50, 54-61
GetExpired(w) ==
    /\ pc[w] = "get_lookup"
    /\ Contains(cache, key[w])
    /\ IsExpired(GetItem(cache, key[w]).timestamp, now)
    /\ cache' = DelItem(cache, key[w])
    /\ misses' = misses + 1
    /\ ret' = [ret EXCEPT ![w] = None]
    /\ snap' = [snap EXCEPT ![w].read = now]
    /\ pc' = [pc EXCEPT ![w] = "get_unlock"]
    /\ last_op' = NoOp
    /\ UNCHANGED <<config_vars, app_vars, heap, gets, hits, lock, now, handler, req, key, analysis,
                   stats_ret, next_obj, started, recency, last_set, re_set>>

\* mutant: a hit restarts the ttl period of the entry (sliding expiry)
GetHitRefreshes(w) ==
    /\ pc[w] = "get_lookup"
    /\ Contains(cache, key[w])
    /\ ~IsExpired(GetItem(cache, key[w]).timestamp, now)
    /\ cache' = Append(DelItem(cache, key[w]),
                       [GetItem(cache, key[w]) EXCEPT !.timestamp = now])
    /\ hits' = hits + 1
    /\ ret' = [ret EXCEPT ![w] = GetItem(cache, key[w]).data]
    /\ snap' = [snap EXCEPT ![w].read = now]
    /\ recency' = Touch(key[w])
    /\ pc' = [pc EXCEPT ![w] = "get_unlock"]
    /\ last_op' = NoOp
    /\ UNCHANGED <<config_vars, app_vars, heap, gets, misses, lock, now, handler, req, key, analysis,
                   stats_ret, next_obj, started, last_set, re_set>>

\* cache.py 50, 54-57, 63-67
GetHit(w) ==
    /\ pc[w] = "get_lookup"
    /\ Contains(cache, key[w])
    /\ ~IsExpired(GetItem(cache, key[w]).timestamp, now)
    /\ cache' = MoveToEnd(cache, key[w])
    /\ hits' = hits + 1
    /\ ret' = [ret EXCEPT ![w] = GetItem(cache, key[w]).data]
    /\ snap' = [snap EXCEPT ![w].read = now]
    /\ recency' = Touch(key[w])
    /\ pc' = [pc EXCEPT ![w] = "get_unlock"]
    /\ last_op' = NoOp
    /\ UNCHANGED <<config_vars, app_vars, heap, gets, misses, lock, now, handler, req, key, analysis,
                   stats_ret, next_obj, started, last_set, re_set>>

\* the return of get leaves the `with` block; main.py 209-211: a cached
\* result is marked "_cached" and stats() is called for it; main.py 225-226:
\* with nothing cached the external analysis is called
GetRelease(w) ==
    /\ pc[w] = "get_unlock"
    /\ handler[w] = "analyze"
    /\ Release(w)
    /\ gets' = gets + 1
    /\ IF IsCached(ret[w])
       THEN /\ heap' = [heap EXCEPT ![ret[w]] = @ \cup {"_cached"}]
            /\ pc' = [pc EXCEPT ![w] = "stats_lock"]
       ELSE /\ heap' = heap
            /\ pc' = [pc EXCEPT ![w] = "ext_call"]
    /\ UNCHANGED <<config_vars, app_vars, cache_vars, now, handler, local_vars, next_obj,
                   started, history_vars>>

\* main.py 226-241 and cache.py 71: analyze_skin_with_gemini returns a new
\* dict, "status", "score" and "image_info" are written to it, set is called
\* with it and computes the key
ExternalReturn(w) ==
    /\ pc[w] = "ext_call"
    /\ next_obj' = next_obj + 1
    /\ heap' = Append(heap, ResultItems)
    /\ analysis' = [analysis EXCEPT ![w] = next_obj + 1]
    /\ key' = [key EXCEPT ![w] = GenerateKey(req[w].image, req[w].user_data)]
    /\ pc' = [pc EXCEPT ![w] = "set_lock"]
    /\ UNCHANGED <<config_vars, app_vars, gets, cache_vars, lock, now, handler, req, ret, stats_ret,
                   started, snap, history_vars>>

\* mutant: the fallback is stored for the key of the request
ExternalFailCached(w) ==
    /\ pc[w] = "ext_call"
    /\ cache' = Append(cache, [key |-> key[w], data |-> Fallback, timestamp |-> now])
    /\ pc' = [pc EXCEPT ![w] = "return_fallback"]
    /\ UNCHANGED <<config_vars, app_vars, heap, gets, hits, misses, lock, now, handler, local_vars,
                   next_obj, started, snap, history_vars>>

\* main.py 256-309: analyze_skin_with_gemini raises, the fallback is built
ExternalFail(w) ==
    /\ pc[w] = "ext_call"
    /\ pc' = [pc EXCEPT ![w] = "return_fallback"]
    /\ UNCHANGED <<config_vars, app_vars, heap, gets, cache_vars, lock, now, handler, local_vars,
                   next_obj, started, snap, history_vars>>

\* cache.py 73
SetAcquire(w) ==
    /\ pc[w] = "set_lock"
    /\ Acquire(w)
    /\ pc' = [pc EXCEPT ![w] = "set_evict"]
    /\ UNCHANGED <<config_vars, app_vars, heap, gets, cache_vars, now, handler, local_vars, next_obj,
                   started, history_vars>>

\* mutant: the loop of set removes an expired entry when there is one
SetEvictExpiredFirst(w) ==
    /\ pc[w] = "set_evict"
    /\ AtCapacity(cache)
    /\ cache /= <<>>
    /\ cache' = IF \E i \in 1..Len(cache) : IsExpired(cache[i].timestamp, now)
                THEN RemoveAt(cache, CHOOSE i \in 1..Len(cache) :
                                         IsExpired(cache[i].timestamp, now))
                ELSE Tail(cache)
    /\ UNCHANGED <<config_vars, app_vars, heap, gets, hits, misses, lock, now, pc, handler, local_vars,
                   next_obj, started, snap, history_vars>>

\* cache.py 75-78: one turn of the loop
SetEvict(w) ==
    /\ pc[w] = "set_evict"
    /\ AtCapacity(cache)
    /\ cache /= <<>>
    /\ cache' = Tail(cache)
    /\ UNCHANGED <<config_vars, app_vars, heap, gets, hits, misses, lock, now, pc, handler, local_vars,
                   next_obj, started, snap, history_vars>>

\* cache.py 75-76: next(iter(...)) of an empty dict raises StopIteration and
\* the `with` block is left; in /analyze main.py 256-309 builds the fallback
SetEvictRaise(w) ==
    /\ pc[w] = "set_evict"
    /\ AtCapacity(cache)
    /\ cache = <<>>
    /\ Release(w)
    /\ IF handler[w] = "analyze"
       THEN /\ pc' = [pc EXCEPT ![w] = "return_fallback"]
            /\ UNCHANGED <<handler, local_vars>>
       ELSE Finish(w)
    /\ last_op' = NoOp
    /\ UNCHANGED <<config_vars, app_vars, heap, gets, cache_vars, now, next_obj, started, recency,
                   last_set, re_set>>

\* cache.py 80-83
SetInsert(w) ==
    /\ pc[w] = "set_evict"
    /\ ~AtCapacity(cache)
    /\ cache' = SetItem(cache, key[w],
                        [key |-> key[w], data |-> analysis[w], timestamp |-> now])
    /\ snap' = [snap EXCEPT ![w].read = now]
    /\ recency' = Touch(key[w])
    /\ last_set' = [last_set EXCEPT ![key[w]] = now]
    /\ re_set' = (re_set \/ last_set[key[w]] /= -1)
    /\ last_op' = [key |-> key[w], data |-> analysis[w], at |-> now, form |-> req[w]]
    /\ pc' = [pc EXCEPT ![w] = "set_unlock"]
    /\ UNCHANGED <<config_vars, app_vars, heap, gets, hits, misses, lock, now, handler, local_vars,
                   next_obj, started>>

\* the end of set leaves the `with` block; main.py 243-254: for a signed-in
\* user whose scan is saved, "_scan_id" and "streak" are written to the
\* analysis
SetRelease(w, callers) ==
    /\ pc[w] = "set_unlock"
    /\ handler[w] = "analyze"
    /\ Release(w)
    /\ \E saved \in callers :
           heap' = IF saved
                   THEN [heap EXCEPT ![analysis[w]] = @ \cup {"_scan_id", "streak"}]
                   ELSE heap
    /\ pc' = [pc EXCEPT ![w] = "return_analysis"]
    /\ UNCHANGED <<config_vars, app_vars, gets, cache_vars, now, handler, local_vars, next_obj,
                   started, history_vars>>

\* ------------------------------------------------- stats() and clear()
\* main.py 109-123, 312-332: /, /health and /cache/stats call stats()
StatsCall(w, limit) ==
    /\ pc[w] = "idle"
    /\ started < limit
    /\ started' = started + 1
    /\ handler' = [handler EXCEPT ![w] = "cache_stats"]
    /\ pc' = [pc EXCEPT ![w] = "stats_lock"]
    /\ UNCHANGED <<config_vars, app_vars, heap, gets, cache_vars, lock, now, local_vars, next_obj, snap,
                   history_vars>>

\* cache.py 94
StatsAcquire(w) ==
    /\ pc[w] = "stats_lock"
    /\ Acquire(w)
    /\ pc' = [pc EXCEPT ![w] = "stats_read"]
    /\ UNCHANGED <<config_vars, app_vars, heap, gets, cache_vars, now, handler, local_vars, next_obj,
                   started, history_vars>>

\* mutant: the quotient is not multiplied by 100
HitRateUnscaled(h, m) == IF h + m > 0 THEN (20 * h + (h + m)) \div (2 * (h + m)) ELSE 0

\* cache.py 96 and 102: hits / total * 100 written with one decimal, as a
\* number of tenths of a percent
HitRate(h, m) == IF h + m > 0 THEN (2000 * h + (h + m)) \div (2 * (h + m)) ELSE 0

\* cache.py 95-104
StatsRead(w) ==
    /\ pc[w] = "stats_read"
    /\ stats_ret' = [stats_ret EXCEPT ![w] =
                        [size |-> Len(cache), max_size |-> max_size, hits |-> hits,
                         misses |-> misses, hit_rate |-> HitRate(hits, misses),
                         ttl_seconds |-> ttl]]
    /\ pc' = [pc EXCEPT ![w] = "stats_unlock"]
    /\ last_op' = NoOp
    /\ UNCHANGED <<config_vars, app_vars, heap, gets, cache_vars, lock, now, handler, req, key, ret,
                   analysis, next_obj, started, snap, recency, last_set, re_set>>

\* the return of stats leaves the `with` block and the endpoint answers; in
\* /analyze (main.py 211-221) the statistics are written to the cached
\* result as "_cache_stats" and, for a signed-in user whose scan is saved,
\* "streak" is written to it
StatsRelease(w, callers) ==
    /\ pc[w] = "stats_unlock"
    /\ Release(w)
    /\ IF handler[w] = "analyze"
       THEN /\ \E saved \in callers :
                   heap' = [heap EXCEPT ![ret[w]] =
                               @ \cup {"_cache_stats"} \cup (IF saved THEN {"streak"} ELSE {})]
            /\ pc' = [pc EXCEPT ![w] = "return_cached"]
            /\ UNCHANGED <<handler, local_vars>>
       ELSE /\ heap' = heap
            /\ Finish(w)
    /\ UNCHANGED <<config_vars, app_vars, gets, cache_vars, now, next_obj, started, history_vars>>

\* what /analyze is about to return: main.py 223, 254 and 309
Response(w) ==
    CASE pc[w] = "return_cached" -> ret[w]
      [] pc[w] = "return_analysis" -> analysis[w]
      [] pc[w] = "return_fallback" -> Fallback

\* main.py 223, 254, 309
AnalyzeReturn(w) ==
    /\ pc[w] \in {"return_cached", "return_analysis", "return_fallback"}
    /\ Finish(w)
    /\ UNCHANGED <<config_vars, app_vars, heap, gets, cache_vars, lock, now, next_obj, started, snap,
                   history_vars>>

\* main.py 335-344: /cache/clear
ClearCall(w, limit) ==
    /\ pc[w] = "idle"
    /\ started < limit
    /\ started' = started + 1
    /\ handler' = [handler EXCEPT ![w] = "cache_clear"]
    /\ pc' = [pc EXCEPT ![w] = "clear_lock"]
    /\ UNCHANGED <<config_vars, app_vars, heap, gets, cache_vars, lock, now, local_vars, next_obj, snap,
                   history_vars>>

\* cache.py 88
ClearAcquire(w) ==
    /\ pc[w] = "clear_lock"
    /\ Acquire(w)
    /\ pc' = [pc EXCEPT ![w] = "clear_run"]
    /\ UNCHANGED <<config_vars, app_vars, heap, gets, cache_vars, now, handler, local_vars, next_obj,
                   started, history_vars>>

\* mutant: clear also resets the counters
ClearRunResetsCounters(w) ==
    /\ pc[w] = "clear_run"
    /\ cache' = <<>>
    /\ hits' = 0
    /\ misses' = 0
    /\ pc' = [pc EXCEPT ![w] = "clear_unlock"]
    /\ last_op' = ClearOp
    /\ UNCHANGED <<config_vars, app_vars, heap, gets, lock, now, handler, local_vars,
                   next_obj, started, snap, recency, last_set, re_set>>

\* cache.py 89
ClearRun(w) ==
    /\ pc[w] = "clear_run"
    /\ cache' = <<>>
    /\ pc' = [pc EXCEPT ![w] = "clear_unlock"]
    /\ last_op' = ClearOp
    /\ UNCHANGED <<config_vars, app_vars, heap, gets, hits, misses, lock, now, handler, local_vars,
                   next_obj, started, snap, recency, last_set, re_set>>

\* the end of clear leaves the `with` block and the endpoint answers
ClearRelease(w) ==
    /\ pc[w] = "clear_unlock"
    /\ Release(w)
    /\ Finish(w)
    /\ UNCHANGED <<config_vars, app_vars, heap, gets, cache_vars, now, next_obj, started, history_vars>>

\* ---------------------------------------------------------------- time
\* time.time() has moved on when it is read: the clock is read by get once
\* it has the lock (cache.py 57) and by set when it writes (cache.py 82)
Tick ==
    /\ now < MaxTime
    /\ \E w \in Workers : pc[w] \in {"get_lookup", "set_evict"}
    /\ now' = now + 1
    /\ UNCHANGED <<config_vars, app_vars, heap, gets, cache_vars, lock, pc, handler, local_vars, next_obj,
                   started, snap, history_vars>>

\* main.py 214, 244: `if user_id`, and save_scan, increment_scan_count and
\* update_streak succeed: TRUE for a signed-in caller whose scan is saved
Anonymous == {FALSE}

AnyCaller == BOOLEAN

\* the steps inside get, set, stats and clear
CacheStep(w, callers) ==
    \/ GetAcquire(w)
    \/ GetAbsent(w)
    \/ GetExpired(w)
    \/ GetHit(w)
    \/ SetAcquire(w)
    \/ SetEvict(w)
    \/ SetEvictRaise(w)
    \/ SetInsert(w)
    \/ StatsAcquire(w)
    \/ StatsRead(w)
    \/ StatsRelease(w, callers)
    \/ ClearAcquire(w)
    \/ ClearRun(w)
    \/ ClearRelease(w)

NextOf(ws, limit, callers) ==
    \/ \E w \in ws, r \in RequestForms : AnalyzeReject(w, r, limit)
    \/ \E w \in ws, r \in RequestForms : AnalyzeGet(w, r, limit)
    \/ \E w \in ws : GetRelease(w)
    \/ \E w \in ws : ExternalReturn(w)
    \/ \E w \in ws : ExternalFail(w)
    \/ \E w \in ws : SetRelease(w, callers)
    \/ \E w \in ws : AnalyzeReturn(w)
    \/ \E w \in ws : StatsCall(w, limit)
    \/ \E w \in ws : ClearCall(w, limit)
    \/ \E w \in ws : CacheStep(w, callers)
    \/ Tick

\* the workers serve requests of anonymous callers concurrently
Next == NextOf(Workers, MaxRequests, Anonymous)

Spec == Init /\ [][Next]_vars

\* one worker serves a longer run of requests of any callers, one after the
\* other
NextSeq == NextOf({1}, MaxSeqRequests, AnyCaller)

SpecSeq == Init /\ [][NextSeq]_vars

\* ------------------------------------------------ the cache called directly
\* cache.py 45-47: get(image_bytes, user_data) computes its key
ApiGet(w, f, limit) ==
    /\ pc[w] = "idle"
    /\ started < limit
    /\ Serializable(f.user_data)
    /\ started' = started + 1
    /\ handler' = [handler EXCEPT ![w] = "get"]
    /\ req' = [req EXCEPT ![w] = f]
    /\ key' = [key EXCEPT ![w] = GenerateKey(f.image, f.user_data)]
    /\ pc' = [pc EXCEPT ![w] = "get_lock"]
    /\ UNCHANGED <<config_vars, app_vars, heap, gets, cache_vars, lock, now, ret, analysis, stats_ret,
                   next_obj, snap, history_vars>>

\* cache.py 52, 61, 67: get returns to its caller
ApiGetReturn(w) ==
    /\ pc[w] = "get_unlock"
    /\ handler[w] = "get"
    /\ Release(w)
    /\ Finish(w)
    /\ gets' = gets + 1
    /\ UNCHANGED <<config_vars, app_vars, heap, cache_vars, now, next_obj, started, history_vars>>

\* cache.py 69-71: set(image_bytes, user_data, result) with a result dict of
\* the caller computes its key
ApiSet(w, f, limit) ==
    /\ pc[w] = "idle"
    /\ started < limit
    /\ Serializable(f.user_data)
    /\ started' = started + 1
    /\ handler' = [handler EXCEPT ![w] = "set"]
    /\ req' = [req EXCEPT ![w] = f]
    /\ next_obj' = next_obj + 1
    /\ heap' = Append(heap, ResultItems)
    /\ analysis' = [analysis EXCEPT ![w] = next_obj + 1]
    /\ key' = [key EXCEPT ![w] = GenerateKey(f.image, f.user_data)]
    /\ pc' = [pc EXCEPT ![w] = "set_lock"]
    /\ UNCHANGED <<config_vars, app_vars, gets, cache_vars, lock, now, ret, stats_ret, snap,
                   history_vars>>

\* cache.py 84: set returns to its caller
ApiSetReturn(w) ==
    /\ pc[w] = "set_unlock"
    /\ handler[w] = "set"
    /\ Release(w)
    /\ Finish(w)
    /\ UNCHANGED <<config_vars, app_vars, heap, gets, cache_vars, now, next_obj, started, history_vars>>

NextApi(ws, limit, forms) ==
    \/ \E w \in ws, f \in forms : ApiGet(w, f, limit)
    \/ \E w \in ws : ApiGetReturn(w)
    \/ \E w \in ws, f \in forms : ApiSet(w, f, limit)
    \/ \E w \in ws : ApiSetReturn(w)
    \/ \E w \in ws : StatsCall(w, limit)
    \/ \E w \in ws : ClearCall(w, limit)
    \/ \E w \in ws : CacheStep(w, Anonymous)
    \/ Tick

\* one caller calls get, set, stats and clear in any order
SpecApi == InitWith(0..MaxApiCapacity) /\ [][NextApi({1}, MaxApiCalls, RequestForms)]_vars

\* one caller calls the cache with any image and profile
SpecKey == Init /\ [][NextApi({1}, MaxKeyCalls, ApiForms)]_vars

\* ------------------------------------------ calls with an invalid profile
\* mutant: a get whose profile cannot be serialized is counted as a miss
GetKeyRaiseCounted(w, f, limit) ==
    /\ pc[w] = "idle"
    /\ started < limit
    /\ ~Serializable(f.user_data)
    /\ started' = started + 1
    /\ handler' = [handler EXCEPT ![w] = "get"]
    /\ req' = [req EXCEPT ![w] = f]
    /\ misses' = misses + 1
    /\ pc' = [pc EXCEPT ![w] = "key_error"]
    /\ UNCHANGED <<config_vars, app_vars, heap, gets, cache, hits, lock, now, key, ret, analysis,
                   stats_ret, next_obj, snap, history_vars>>

\* cache.py 47 and 40: get calls _generate_key, where json.dumps raises
\* TypeError before the key exists and before `with self._lock`
GetKeyRaise(w, f, limit) ==
    /\ pc[w] = "idle"
    /\ started < limit
    /\ ~Serializable(f.user_data)
    /\ started' = started + 1
    /\ handler' = [handler EXCEPT ![w] = "get"]
    /\ req' = [req EXCEPT ![w] = f]
    /\ pc' = [pc EXCEPT ![w] = "key_error"]
    /\ UNCHANGED <<config_vars, app_vars, heap, gets, cache_vars, lock, now, key, ret, analysis,
                   stats_ret, next_obj, snap, history_vars>>

\* cache.py 71 and 40: set, called with a result dict of the caller, calls
\* _generate_key, where json.dumps raises TypeError
SetKeyRaise(w, f, limit) ==
    /\ pc[w] = "idle"
    /\ started < limit
    /\ ~Serializable(f.user_data)
    /\ started' = started + 1
    /\ handler' = [handler EXCEPT ![w] = "set"]
    /\ req' = [req EXCEPT ![w] = f]
    /\ next_obj' = next_obj + 1
    /\ heap' = Append(heap, ResultItems)
    /\ analysis' = [analysis EXCEPT ![w] = next_obj + 1]
    /\ pc' = [pc EXCEPT ![w] = "key_error"]
    /\ UNCHANGED <<config_vars, app_vars, gets, cache_vars, lock, now, key, ret, stats_ret, snap,
                   history_vars>>

\* the TypeError leaves get or set and reaches the caller
KeyErrorReturn(w) ==
    /\ pc[w] = "key_error"
    /\ Finish(w)
    /\ UNCHANGED <<config_vars, app_vars, heap, gets, cache_vars, lock, now, next_obj, started, snap,
                   history_vars>>

NextInvalid ==
    \/ NextApi(Workers, MaxInvalidCalls, InvalidForms)
    \/ \E w \in Workers, f \in InvalidForms : GetKeyRaise(w, f, MaxInvalidCalls)
    \/ \E w \in Workers, f \in InvalidForms : SetKeyRaise(w, f, MaxInvalidCalls)
    \/ \E w \in Workers : KeyErrorReturn(w)

\* two callers call the cache concurrently, also with a profile that cannot
\* be serialized
SpecInvalid == InitWith(0..MaxCapacity) /\ [][NextInvalid]_vars

\* --------------------------------------------------- the rate limiter
\* the cache with its default of one configuration: the specifications of
\* the application outside the cache start here
InitApplication == InitWith({1}) /\ ttl = MaxTtl

\* the variables of the cache and of its callers, the clock apart
cache_model_vars ==
    <<config_vars, cache_vars, lock, pc, handler, local_vars, next_obj, heap, started,
      snap, history_vars, gets>>

\* main.py 90-91: the timestamps of the list that are younger than the window
Recent(timestamps, t) == SelectSeq(timestamps, LAMBDA x : t - x < RATE_LIMIT_WINDOW)

\* mutant: the request that is denied is recorded as well
CheckRateLimitRecordsDenied(client_ip) ==
    /\ Len(rate_log) < MaxRateCalls
    /\ LET kept == Recent(rate_limit_store[client_ip], now)
           allowed == Len(kept) < RATE_LIMIT_REQUESTS
       IN /\ rate_limit_store' = [rate_limit_store EXCEPT ![client_ip] = Append(kept, now)]
          /\ rate_log' = Append(rate_log, [ip |-> client_ip, at |-> now, allowed |-> allowed])
    /\ UNCHANGED <<cache_model_vars, now, retry_vars, user_vars>>

\* main.py 83-98, called by /analyze for a caller who is not signed in
\* (main.py 171): the list of the IP is cut to the window, the request is
\* denied when the list is full and recorded otherwise
CheckRateLimit(client_ip) ==
    /\ Len(rate_log) < MaxRateCalls
    /\ LET kept == Recent(rate_limit_store[client_ip], now)
           allowed == Len(kept) < RATE_LIMIT_REQUESTS
       IN /\ rate_limit_store' =
                 [rate_limit_store EXCEPT ![client_ip] = IF allowed THEN Append(kept, now) ELSE kept]
          /\ rate_log' = Append(rate_log, [ip |-> client_ip, at |-> now, allowed |-> allowed])
    /\ UNCHANGED <<cache_model_vars, now, retry_vars, user_vars>>

\* time.time() has moved on between two requests
RateTick ==
    /\ now < MaxRateTime
    /\ now' = now + 1
    /\ UNCHANGED <<cache_model_vars, app_vars>>

NextRate ==
    \/ \E client_ip \in ClientIps : CheckRateLimit(client_ip)
    \/ RateTick

\* requests of callers who are not signed in arrive from the client IPs
SpecRate == InitApplication /\ [][NextRate]_vars

\* ------------------------------------------------ call_gemini_with_retry
\* the exceptions generate_content raises and the texts it returns
Errors == 1..NumErrors

Texts == 1..NumTexts

\* gemini_analysis.py 73-79: the call enters the loop with attempt = 0
GeminiCall ==
    /\ gemini_pc = "idle"
    /\ gemini_calls < MaxGeminiCalls
    /\ gemini_calls' = gemini_calls + 1
    /\ attempt' = 0
    /\ gemini_ret' = NoReturn
    /\ gemini_log' = <<>>
    /\ gemini_pc' = "attempt"
    /\ UNCHANGED <<cache_model_vars, now, rate_vars, user_vars>>

\* gemini_analysis.py 81-97: generate_content returns and the text is
\* returned
AttemptSucceeds(text) ==
    /\ gemini_pc = "attempt"
    /\ gemini_log' = Append(gemini_log, [kind |-> "text", attempt |-> attempt, value |-> text])
    /\ gemini_ret' = [kind |-> "text", value |-> text]
    /\ gemini_pc' = "returned"
    /\ UNCHANGED <<cache_model_vars, now, rate_vars, user_vars, attempt, gemini_calls>>

\* mutant: the test is attempt <= max_retries
AttemptFailsOnceMore(e) ==
    /\ gemini_pc = "attempt"
    /\ gemini_log' = Append(gemini_log, [kind |-> "error", attempt |-> attempt, value |-> e])
    /\ IF attempt <= GEMINI_MAX_RETRIES
       THEN /\ gemini_pc' = "sleep"
            /\ gemini_ret' = gemini_ret
       ELSE /\ gemini_pc' = "raised"
            /\ gemini_ret' = [kind |-> "error", value |-> e]
    /\ UNCHANGED <<cache_model_vars, now, rate_vars, user_vars, attempt, gemini_calls>>

\* gemini_analysis.py 99-106: generate_content (or response.text.strip())
\* raises e: before the last attempt the call goes on to sleep, at the last
\* attempt e is raised again
AttemptFails(e) ==
    /\ gemini_pc = "attempt"
    /\ gemini_log' = Append(gemini_log, [kind |-> "error", attempt |-> attempt, value |-> e])
    /\ IF attempt < GEMINI_MAX_RETRIES
       THEN /\ gemini_pc' = "sleep"
            /\ gemini_ret' = gemini_ret
       ELSE /\ gemini_pc' = "raised"
            /\ gemini_ret' = [kind |-> "error", value |-> e]
    /\ UNCHANGED <<cache_model_vars, now, rate_vars, user_vars, attempt, gemini_calls>>

\* gemini_analysis.py 101-103 and 79: time.sleep((2 ** attempt) * 0.5)
\* returns and the loop goes to the next attempt; the time is in half seconds
SleepReturns ==
    /\ gemini_pc = "sleep"
    /\ gemini_log' = Append(gemini_log, [kind |-> "sleep", attempt |-> attempt, value |-> 2 ^ attempt])
    /\ attempt' = attempt + 1
    /\ gemini_pc' = "attempt"
    /\ UNCHANGED <<cache_model_vars, now, rate_vars, user_vars, gemini_ret, gemini_calls>>

\* the caller has the text or the exception
GeminiDone ==
    /\ gemini_pc \in {"returned", "raised"}
    /\ gemini_pc' = "idle"
    /\ UNCHANGED <<cache_model_vars, now, rate_vars, user_vars, attempt, gemini_ret, gemini_log, gemini_calls>>

\* generate_content ends, with a text or with an exception
AttemptEnds == (\E text \in Texts : AttemptSucceeds(text)) \/ (\E e \in Errors : AttemptFails(e))

NextRetry ==
    \/ GeminiCall
    \/ \E text \in Texts : AttemptSucceeds(text)
    \/ \E e \in Errors : AttemptFails(e)
    \/ SleepReturns
    \/ GeminiDone

\* call_gemini_with_retry is called; every request to the API ends and every
\* sleep returns
SpecRetry ==
    /\ InitApplication
    /\ [][NextRetry]_vars
    /\ WF_vars(AttemptEnds)
    /\ WF_vars(SleepReturns)

\* ------------------------------------------ /analyze of signed-in callers
\* the forms they send: an image with a profile, and the same without the
\* image
UserForms == {Requests[1], Requests[5]}

\* the documents of users who have not scanned yet, who have one scan of the
\* day left, who have used the scans of the day, and of a user without a
\* limit
InitDocs ==
    {NewUser, UserDoc("unlimited", 1, 0)}
        \cup {UserDoc("free", ScansPerDay("free") - left, 0) : left \in {0, 1}}

\* the application with its default of one cache configuration and users
\* who have scanned before; Firestore answers every call
InitSignedIn ==
    /\ InitCache({1})
    /\ ttl = MaxTtl
    /\ InitRate
    /\ InitRetry
    /\ InitUsers(InitDocs)

\* what the steps of /analyze outside the cache leave alone
cache_state_vars == <<config_vars, cache_vars, now, next_obj, history_vars, gets, retry_vars>>

\* tiers.py 36-53
CanScan(tier, scans_today) ==
    LET daily_limit == ScansPerDay(tier)
    IN IF daily_limit = -1 THEN TRUE ELSE scans_today < daily_limit

\* main.py 140-141, 169-176: a request without a token goes through
\* check_rate_limit (main.py 83-98) and is answered 429 when it is denied
AnalyzeAnonymous(w, client_ip, r) ==
    /\ pc[w] = "idle"
    /\ started < MaxUserRequests
    /\ started' = started + 1
    /\ handler' = [handler EXCEPT ![w] = "analyze"]
    /\ req' = [req EXCEPT ![w] = r]
    /\ LET kept == Recent(rate_limit_store[client_ip], now)
           allowed == Len(kept) < RATE_LIMIT_REQUESTS
       IN /\ rate_limit_store' =
                 [rate_limit_store EXCEPT ![client_ip] = IF allowed THEN Append(kept, now) ELSE kept]
          /\ rate_log' = Append(rate_log, [ip |-> client_ip, at |-> now, allowed |-> allowed])
          /\ pc' = [pc EXCEPT ![w] = IF allowed THEN "validate" ELSE "rate_429"]
    /\ UNCHANGED <<cache_state_vars, user_vars, lock, snap, heap, key, ret, analysis, stats_ret>>

\* main.py 140-147: a request with the token of user u; get_user is called
AnalyzeSignedIn(w, u, r) ==
    /\ pc[w] = "idle"
    /\ started < MaxUserRequests
    /\ started' = started + 1
    /\ handler' = [handler EXCEPT ![w] = "analyze"]
    /\ req' = [req EXCEPT ![w] = r]
    /\ user_id' = [user_id EXCEPT ![w] = u]
    /\ pc' = [pc EXCEPT ![w] = "tier_check"]
    /\ UNCHANGED <<cache_state_vars, rate_vars, lock, snap, heap, key, ret, analysis, stats_ret,
                   today, users, scans, user_profile, new_count, scan_record, fields, passed,
                   checked_on>>

\* mutant: the scans of an earlier day do not count (get_daily_scan_count)
TierCheckOfToday(w) ==
    /\ pc[w] = "tier_check"
    /\ LET profile == users[user_id[w]]
           scans_today == IF profile.last_scan_date /= today THEN 0 ELSE profile.scans_today
       IN /\ user_profile' = [user_profile EXCEPT ![w] = profile]
          /\ checked_on' = [checked_on EXCEPT ![w] = today]
          /\ IF CanScan(profile.tier, scans_today)
             THEN /\ pc' = [pc EXCEPT ![w] = "validate"]
                  /\ passed' = [passed EXCEPT ![user_id[w]][today] = @ + 1]
             ELSE /\ pc' = [pc EXCEPT ![w] = "tier_429"]
                  /\ passed' = passed
    /\ UNCHANGED <<cache_state_vars, rate_vars, lock, snap, heap, handler, local_vars, started,
                   today, users, scans, user_id, new_count, scan_record, fields>>

\* mutant: a request is let through while the count has not passed the limit
TierCheckAtLimit(w) ==
    /\ pc[w] = "tier_check"
    /\ LET profile == users[user_id[w]]
       IN /\ user_profile' = [user_profile EXCEPT ![w] = profile]
          /\ checked_on' = [checked_on EXCEPT ![w] = today]
          /\ IF CanScan(profile.tier, profile.scans_today - 1)
             THEN /\ pc' = [pc EXCEPT ![w] = "validate"]
                  /\ passed' = [passed EXCEPT ![user_id[w]][today] = @ + 1]
             ELSE /\ pc' = [pc EXCEPT ![w] = "tier_429"]
                  /\ passed' = passed
    /\ UNCHANGED <<cache_state_vars, rate_vars, lock, snap, heap, handler, local_vars, started,
                   today, users, scans, user_id, new_count, scan_record, fields>>

\* main.py 147-163: get_user has returned the document of the user; the
\* stored scans_today is tested against the limit of the tier and the
\* request is answered 429 when can_scan is false
TierCheck(w) ==
    /\ pc[w] = "tier_check"
    /\ LET profile == users[user_id[w]]
       IN /\ user_profile' = [user_profile EXCEPT ![w] = profile]
          /\ checked_on' = [checked_on EXCEPT ![w] = today]
          /\ IF CanScan(profile.tier, profile.scans_today)
             THEN /\ pc' = [pc EXCEPT ![w] = "validate"]
                  /\ passed' = [passed EXCEPT ![user_id[w]][today] = @ + 1]
             ELSE /\ pc' = [pc EXCEPT ![w] = "tier_429"]
                  /\ passed' = passed
    /\ UNCHANGED <<cache_state_vars, rate_vars, lock, snap, heap, handler, local_vars, started,
                   today, users, scans, user_id, new_count, scan_record, fields>>

\* main.py 178-208 and cache.py 47: `await image.read()` has returned; a
\* request without image bytes is answered 400, for a valid one get
\* computes its key
Validate(w) ==
    /\ pc[w] = "validate"
    /\ IF req[w].image = <<>>
       THEN /\ pc' = [pc EXCEPT ![w] = "bad_request"]
            /\ key' = key
       ELSE /\ pc' = [pc EXCEPT ![w] = "get_lock"]
            /\ key' = [key EXCEPT ![w] = GenerateKey(req[w].image, req[w].user_data)]
    /\ UNCHANGED <<cache_state_vars, rate_vars, user_vars, lock, snap, heap, handler, req, ret,
                   analysis, stats_ret, started>>

\* the end of set leaves the `with` block; main.py 243-245: save_scan is
\* called for a signed-in caller
SetReleaseSignedIn(w) ==
    /\ pc[w] = "set_unlock"
    /\ handler[w] = "analyze"
    /\ Release(w)
    /\ pc' = [pc EXCEPT ![w] = IF user_id[w] /= NoUser THEN "save_scan" ELSE "return_analysis"]
    /\ UNCHANGED <<cache_state_vars, rate_vars, user_vars, heap, handler, local_vars, started>>

\* the return of stats leaves the `with` block; main.py 211-216: the
\* statistics are written to the cached result and save_scan is called for
\* a signed-in caller
StatsReleaseSignedIn(w) ==
    /\ pc[w] = "stats_unlock"
    /\ handler[w] = "analyze"
    /\ Release(w)
    /\ heap' = [heap EXCEPT ![ret[w]] = @ \cup {"_cache_stats"}]
    /\ pc' = [pc EXCEPT ![w] = IF user_id[w] /= NoUser THEN "save_scan" ELSE "return_cached"]
    /\ UNCHANGED <<cache_state_vars, rate_vars, user_vars, handler, local_vars, started>>

\* the dict /analyze has in hand after the cache: cached_result on the hit
\* path, analysis on the miss path
Result(w) == IF IsCached(ret[w]) THEN ret[w] ELSE analysis[w]

\* scans.py 67-114, called at main.py 216 and 246: a document with the whole
\* dict as "full_analysis" is added to the collection; the record that is
\* returned is kept on the miss path only
SaveScan(w) ==
    /\ pc[w] = "save_scan"
    /\ scans' = Append(scans, [user_id |-> user_id[w], full_analysis |-> Result(w)])
    /\ scan_record' = [scan_record EXCEPT ![w] = IF IsCached(ret[w]) THEN @ ELSE Len(scans) + 1]
    /\ pc' = [pc EXCEPT ![w] = "increment_read"]
    /\ UNCHANGED <<cache_state_vars, rate_vars, lock, snap, heap, handler, local_vars, started,
                   today, users, user_id, user_profile, new_count, fields, passed, checked_on>>

\* users.py 157-172: increment_scan_count reads the document and the date:
\* the count starts again at 1 when the latest scan was not made today
IncrementRead(w) ==
    /\ pc[w] = "increment_read"
    /\ LET data == users[user_id[w]]
       IN new_count' = [new_count EXCEPT ![w] =
                           [scans_today |-> IF data.last_scan_date /= today
                                            THEN 1 ELSE data.scans_today + 1,
                            last_scan_date |-> today]]
    /\ pc' = [pc EXCEPT ![w] = "increment_write"]
    /\ UNCHANGED <<cache_state_vars, rate_vars, lock, snap, heap, handler, local_vars, started,
                   today, users, scans, user_id, user_profile, scan_record, fields, passed,
                   checked_on>>

\* users.py 174-180: doc_ref.update writes the count and the date
IncrementWrite(w) ==
    /\ pc[w] = "increment_write"
    /\ users' = [users EXCEPT ![user_id[w]].scans_today = new_count[w].scans_today,
                              ![user_id[w]].last_scan_date = new_count[w].last_scan_date]
    /\ pc' = [pc EXCEPT ![w] = "update_streak"]
    /\ UNCHANGED <<cache_state_vars, rate_vars, lock, snap, heap, handler, local_vars, started,
                   today, scans, user_id, user_profile, new_count, scan_record, fields, passed,
                   checked_on>>

\* users.py 246-270: the streak after a scan of today
StreakAfter(data, day) ==
    LET current_streak ==
            CASE data.streak_last_scan_date = day -> data.current_streak
              [] data.streak_last_scan_date /= NoDate /\ data.streak_last_scan_date = day - 1 ->
                     data.current_streak + 1
              [] OTHER -> 1
        streak_extended ==
            CASE data.streak_last_scan_date = day -> FALSE
              [] data.streak_last_scan_date /= NoDate /\ data.streak_last_scan_date = day - 1 -> TRUE
              [] OTHER -> data.streak_last_scan_date = NoDate
    IN [current_streak |-> current_streak,
        longest_streak |-> Max(current_streak, data.longest_streak),
        streak_extended |-> streak_extended]

\* mutant: "_scan_id" is not written to the analysis
UpdateStreakWithoutScanId(w) ==
    /\ pc[w] = "update_streak"
    /\ LET streak == StreakAfter(users[user_id[w]], today)
           streak_info == [uid |-> user_id[w], current_streak |-> streak.current_streak,
                           longest_streak |-> streak.longest_streak,
                           streak_extended |-> streak.streak_extended]
       IN /\ users' = [users EXCEPT ![user_id[w]].current_streak = streak.current_streak,
                                    ![user_id[w]].longest_streak = streak.longest_streak,
                                    ![user_id[w]].streak_last_scan_date = today]
          /\ fields' = [fields EXCEPT ![Result(w)].streak = streak_info]
          /\ heap' = [heap EXCEPT ![Result(w)] = @ \cup {"streak"}]
          /\ pc' = [pc EXCEPT ![w] = IF IsCached(ret[w]) THEN "return_cached" ELSE "return_analysis"]
    /\ UNCHANGED <<cache_state_vars, rate_vars, lock, snap, handler, local_vars, started,
                   today, scans, user_id, user_profile, new_count, scan_record, passed, checked_on>>

\* users.py 225-288 and main.py 218-219, 248-249: update_streak writes the
\* streak of the user and returns it; on the hit path it is written to the
\* cached result as "streak", on the miss path "_scan_id" and "streak" are
\* written to the analysis, the dict that the cache has stored
UpdateStreak(w) ==
    /\ pc[w] = "update_streak"
    /\ LET streak == StreakAfter(users[user_id[w]], today)
           streak_info == [uid |-> user_id[w], current_streak |-> streak.current_streak,
                           longest_streak |-> streak.longest_streak,
                           streak_extended |-> streak.streak_extended]
       IN /\ users' = [users EXCEPT ![user_id[w]].current_streak = streak.current_streak,
                                    ![user_id[w]].longest_streak = streak.longest_streak,
                                    ![user_id[w]].streak_last_scan_date = today]
          /\ IF IsCached(ret[w])
             THEN /\ fields' = [fields EXCEPT ![ret[w]].streak = streak_info]
                  /\ heap' = [heap EXCEPT ![ret[w]] = @ \cup {"streak"}]
                  /\ pc' = [pc EXCEPT ![w] = "return_cached"]
             ELSE /\ fields' = [fields EXCEPT ![analysis[w]] =
                                   [scan_id |-> scan_record[w], streak |-> streak_info]]
                  /\ heap' = [heap EXCEPT ![analysis[w]] = @ \cup {"_scan_id", "streak"}]
                  /\ pc' = [pc EXCEPT ![w] = "return_analysis"]
    /\ UNCHANGED <<cache_state_vars, rate_vars, lock, snap, handler, local_vars, started,
                   today, scans, user_id, user_profile, new_count, scan_record, passed, checked_on>>

\* main.py 153-163, 173-176, 179-205: the request is answered 429 or 400
AnalyzeRefuse(w) ==
    /\ pc[w] \in {"tier_429", "rate_429", "bad_request"}
    /\ Finish(w)
    /\ user_id' = [user_id EXCEPT ![w] = NoUser]
    /\ user_profile' = [user_profile EXCEPT ![w] = NoDoc]
    /\ checked_on' = [checked_on EXCEPT ![w] = NoDate]
    /\ UNCHANGED <<cache_state_vars, rate_vars, lock, snap, heap, started, today, users, scans,
                   new_count, scan_record, fields, passed>>

\* main.py 223, 254, 309: the dict is returned
AnalyzeReturnSignedIn(w) ==
    /\ pc[w] \in {"return_cached", "return_analysis", "return_fallback"}
    /\ Finish(w)
    /\ user_id' = [user_id EXCEPT ![w] = NoUser]
    /\ user_profile' = [user_profile EXCEPT ![w] = NoDoc]
    /\ new_count' = [new_count EXCEPT ![w] = NoUpdate]
    /\ scan_record' = [scan_record EXCEPT ![w] = 0]
    /\ checked_on' = [checked_on EXCEPT ![w] = NoDate]
    /\ UNCHANGED <<cache_state_vars, rate_vars, lock, snap, heap, started, today, users, scans,
                   fields, passed>>

\* date.today() has moved on
NewDay ==
    /\ today < MaxDay
    /\ today' = today + 1
    /\ UNCHANGED <<cache_model_vars, now, rate_vars, retry_vars, users, scans, user_id,
                   user_profile, new_count, scan_record, fields, passed, checked_on>>

NextSignedIn ==
    \/ \E w \in Workers, client_ip \in ClientIps, r \in UserForms : AnalyzeAnonymous(w, client_ip, r)
    \/ \E w \in Workers, u \in UserIds, r \in UserForms : AnalyzeSignedIn(w, u, r)
    \/ \E w \in Workers : TierCheck(w)
    \/ \E w \in Workers : Validate(w)
    \/ \E w \in Workers : AnalyzeRefuse(w)
    \/ \E w \in Workers : GetAcquire(w)
    \/ \E w \in Workers : GetAbsent(w)
    \/ \E w \in Workers : GetHit(w)
    \/ \E w \in Workers : GetRelease(w)
    \/ \E w \in Workers : ExternalReturn(w)
    \/ \E w \in Workers : ExternalFail(w)
    \/ \E w \in Workers : SetAcquire(w)
    \/ \E w \in Workers : SetEvict(w)
    \/ \E w \in Workers : SetInsert(w)
    \/ \E w \in Workers : SetReleaseSignedIn(w)
    \/ \E w \in Workers : StatsAcquire(w)
    \/ \E w \in Workers : StatsRead(w)
    \/ \E w \in Workers : StatsReleaseSignedIn(w)
    \/ \E w \in Workers : SaveScan(w)
    \/ \E w \in Workers : IncrementRead(w)
    \/ \E w \in Workers : IncrementWrite(w)
    \/ \E w \in Workers : UpdateStreak(w)
    \/ \E w \in Workers : AnalyzeReturnSignedIn(w)
    \/ NewDay

\* signed-in and anonymous callers send requests that the workers serve
\* concurrently, within the ttl of the cache, while the days pass
SpecSignedIn == InitSignedIn /\ [][NextSignedIn]_vars

\* =================================================================== claims
\* the statements of a worker that are inside `with self._lock`
InCriticalSection(w) ==
    pc[w] \in {"get_lookup", "get_unlock", "set_evict", "set_unlock",
               "stats_read", "stats_unlock", "clear_run", "clear_unlock"}

\* ------------------------------------------------------------------- C1
\* C1: with capacity >= 1, in every reachable state, whatever get, set,
\* clear and stats calls have run or are running, the number of stored
\* entries is at most the capacity.
C1_SizeWithinCapacity == max_size >= 1 => Len(cache) <= max_size

\* a set has just inserted into a cache that was full
C1_Witness ==
    \E w \in Workers :
        /\ pc[w] = "set_unlock"
        /\ max_size >= 1
        /\ Len(snap[w].cache) = max_size
        /\ Len(cache) = max_size

\* ------------------------------------------------------------------- C2
\* C2: whenever get returns a value, the entry it found had, at the time get
\* read, an age (time read - timestamp) of at most ttl; an entry older than
\* ttl is never returned.
C2_ServedEntryIsFresh ==
    \A w \in Workers :
        (pc[w] = "get_unlock" /\ ret[w] /= None) =>
            /\ Contains(snap[w].cache, key[w])
            /\ snap[w].read - GetItem(snap[w].cache, key[w]).timestamp <= ttl

\* a get has returned an entry that time had passed over
C2_Witness ==
    \E w \in Workers :
        /\ pc[w] = "get_unlock"
        /\ ret[w] /= None
        /\ snap[w].read - GetItem(snap[w].cache, key[w]).timestamp >= 1

\* ------------------------------------------------------------------- C3
PositionIn(seq, x) == CHOOSE i \in 1..Len(seq) : seq[i] = x

\* among the keys stored in c, the one whose latest insertion or hit is the
\* oldest
OldestAccessed(c) ==
    CHOOSE k \in Keys(c) :
        \A k2 \in Keys(c) : PositionIn(recency, k) <= PositionIn(recency, k2)

\* C3: while no key has been set twice, a set that inserts a new key into a
\* cache holding exactly capacity entries removes exactly one entry, the one
\* whose latest access (insertion or hit) is the oldest, and every other
\* entry is still stored, unchanged.
C3_EvictsLeastRecentlyAccessed ==
    \A w \in Workers :
        ( /\ pc[w] = "set_unlock"
          /\ ~re_set
          /\ max_size >= 1
          /\ Len(snap[w].cache) = max_size
          /\ ~Contains(snap[w].cache, key[w]) ) =>
            LET before == snap[w].cache
                victim == OldestAccessed(before)
            IN /\ Len(cache) = max_size
               /\ Keys(cache) = (Keys(before) \ {victim}) \cup {key[w]}
               /\ \A k \in Keys(before) \ {victim} :
                      GetItem(cache, k) = GetItem(before, k)

\* the set has evicted an entry that was inserted after one that survives,
\* because the survivor was hit in between
C3_Witness ==
    \E w \in Workers :
        /\ pc[w] = "set_unlock"
        /\ ~re_set
        /\ max_size >= 2
        /\ Len(snap[w].cache) = max_size
        /\ ~Contains(snap[w].cache, key[w])
        /\ \E i \in 1..Len(snap[w].cache), j \in 1..Len(cache) :
               /\ ~Contains(cache, snap[w].cache[i].key)
               /\ cache[j].key /= key[w]
               /\ cache[j].data < snap[w].cache[i].data

\* ------------------------------------------------------------------- C4
\* what set leaves of c when it runs alone: the oldest entries are dropped
\* until there is room, then the entry is written
RECURSIVE MadeRoom(_)
MadeRoom(c) == IF Len(c) >= max_size /\ c /= <<>> THEN MadeRoom(Tail(c)) ELSE c

SeqSet(c, k, v, t) ==
    LET room == MadeRoom(c)
        e == [key |-> k, data |-> v, timestamp |-> t]
    IN IF \E i \in 1..Len(room) : room[i].key = k
       THEN [i \in 1..Len(room) |-> IF room[i].key = k THEN e ELSE room[i]]
       ELSE room \o <<e>>

\* what get does when it runs alone on (c, h, m) at time t
SeqGet(c, h, m, k, t) ==
    IF \A i \in 1..Len(c) : c[i].key /= k
    THEN [cache |-> c, hits |-> h, misses |-> m + 1, ret |-> None]
    ELSE LET e == c[CHOOSE i \in 1..Len(c) : c[i].key = k]
             others == SelectSeq(c, LAMBDA x : x.key /= k)
         IN IF t - e.timestamp > ttl
            THEN [cache |-> others, hits |-> h, misses |-> m + 1, ret |-> None]
            ELSE [cache |-> others \o <<e>>, hits |-> h + 1, misses |-> m, ret |-> e.data]

IsSuffix(s, c) == Len(s) <= Len(c) /\ s = SubSeq(c, Len(c) - Len(s) + 1, Len(c))

MutualExclusion == Cardinality({w \in Workers : InCriticalSection(w)}) <= 1

\* C4: at most one worker is inside a critical section; an operation finds
\* the cache as the previous one left it and leaves it as the operation run
\* alone on that state would, so every concurrent execution is one of the
\* executions of the same operations run one at a time in the order of the
\* lock, and no operation sees a half-done eviction or insertion.
C4_OperationsAreAtomic ==
    /\ MutualExclusion
    /\ \A w \in Workers :
        LET s == snap[w] IN
        /\ pc[w] \in {"get_lookup", "stats_read", "clear_run"} =>
               <<cache, hits, misses>> = <<s.cache, s.hits, s.misses>>
        /\ pc[w] = "set_evict" =>
               /\ IsSuffix(cache, s.cache)
               /\ <<hits, misses>> = <<s.hits, s.misses>>
        /\ pc[w] = "get_unlock" =>
               [cache |-> cache, hits |-> hits, misses |-> misses, ret |-> ret[w]]
                   = SeqGet(s.cache, s.hits, s.misses, key[w], s.read)
        /\ pc[w] = "set_unlock" =>
               /\ cache = SeqSet(s.cache, key[w], analysis[w], s.read)
               /\ <<hits, misses>> = <<s.hits, s.misses>>
        /\ pc[w] = "stats_unlock" =>
               /\ <<cache, hits, misses>> = <<s.cache, s.hits, s.misses>>
               /\ stats_ret[w].size = Len(s.cache)
               /\ stats_ret[w].hits = s.hits
               /\ stats_ret[w].misses = s.misses
        /\ pc[w] = "clear_unlock" =>
               <<cache, hits, misses>> = <<(<<>>), s.hits, s.misses>>

\* a worker waits for the lock while another is between the eviction and
\* the insertion of its set
C4_Witness ==
    \E w1, w2 \in Workers :
        /\ w1 /= w2
        /\ pc[w1] = "set_evict"
        /\ Len(cache) < Len(snap[w1].cache)
        /\ pc[w2] \in {"get_lock", "set_lock", "stats_lock", "clear_lock"}
        /\ lock = w1

\* ------------------------------------------------------------------- C5
\* C5: with capacity >= 1, a get that is the first operation after a set of
\* the same key, at the time the set stored, returns the result the set was
\* given and counts exactly one hit.
C5_SetThenGetRoundTrip ==
    \A w \in Workers :
        ( /\ pc[w] = "get_unlock"
          /\ max_size >= 1
          /\ snap[w].prev /= NoOp
          /\ snap[w].prev.key = key[w]
          /\ snap[w].prev.at = snap[w].read ) =>
            /\ ret[w] = snap[w].prev.data
            /\ hits = snap[w].hits + 1
            /\ misses = snap[w].misses

\* a get has run right after the set of its key
C5_Witness ==
    \E w \in Workers :
        /\ pc[w] = "get_unlock"
        /\ snap[w].prev /= NoOp
        /\ snap[w].prev.key = key[w]
        /\ snap[w].prev.at = snap[w].read
        /\ ret[w] = snap[w].prev.data
        /\ hits = snap[w].hits + 1

\* ------------------------------------------------------------------- C6
\* a get of a key whose latest set is more than ttl ago when get looks it up
LookupAfterTtl(w) ==
    /\ pc[w] = "get_unlock"
    /\ last_set[key[w]] /= -1
    /\ snap[w].read > last_set[key[w]] + ttl

StatsShowCounters ==
    \A w \in Workers :
        pc[w] = "stats_unlock" =>
            /\ stats_ret[w].misses = misses
            /\ stats_ret[w].hits = hits
            /\ stats_ret[w].size = Len(cache)

\* C6 as stated: a get more than ttl after the latest set of its key returns
\* nothing, removes the entry so that the size decreases by one, adds 1 to
\* misses and leaves hits; stats shows the counters.
C6_ExpiredGetShrinksCache ==
    /\ StatsShowCounters
    /\ \A w \in Workers :
        LookupAfterTtl(w) =>
            /\ ret[w] = None
            /\ Len(cache) = Len(snap[w].cache) - 1
            /\ ~Contains(cache, key[w])
            /\ misses = snap[w].misses + 1
            /\ hits = snap[w].hits

\* C6 amended: such a get returns nothing, adds 1 to misses and leaves hits;
\* an entry that is still stored is removed and the size decreases by one,
\* and when the entry is already gone (evicted, cleared, or removed by an
\* earlier get) the entries stay as they are; stats shows the counters.
C6_ExpiredGetMisses ==
    /\ StatsShowCounters
    /\ \A w \in Workers :
        LookupAfterTtl(w) =>
            /\ ret[w] = None
            /\ misses = snap[w].misses + 1
            /\ hits = snap[w].hits
            /\ ~Contains(cache, key[w])
            /\ IF Contains(snap[w].cache, key[w])
               THEN Len(cache) = Len(snap[w].cache) - 1
               ELSE cache = snap[w].cache

\* a get has found the entry of its key, expired, and removed it
C6_Witness ==
    \E w \in Workers :
        /\ LookupAfterTtl(w)
        /\ Contains(snap[w].cache, key[w])
        /\ Len(cache) = Len(snap[w].cache) - 1
        /\ misses = snap[w].misses + 1

\* ------------------------------------------------------------------- C7
EntriesOf(c) == {c[i] : i \in 1..Len(c)}

\* C7: get returns a stored value exactly when the key is stored with an age
\* of at most ttl at the time read; the entry is then the most recently used
\* one, hits is one more, and misses, the entry's timestamp and value and the
\* set of stored entries are as before.
C7_GetHitsExactlyWhenFresh ==
    \A w \in Workers :
        pc[w] = "get_unlock" =>
            LET s == snap[w]
                present == Contains(s.cache, key[w])
                e == GetItem(s.cache, key[w])
            IN /\ ret[w] /= None <=> (present /\ s.read - e.timestamp <= ttl)
               /\ ret[w] /= None =>
                      /\ ret[w] = e.data
                      /\ cache[Len(cache)] = e
                      /\ hits = s.hits + 1
                      /\ misses = s.misses
                      /\ Len(cache) = Len(s.cache)
                      /\ EntriesOf(cache) = EntriesOf(s.cache)

\* a get has hit the least recently used of two entries at the age of
\* exactly ttl
C7_Witness ==
    \E w \in Workers :
        /\ pc[w] = "get_unlock"
        /\ ret[w] /= None
        /\ ttl >= 1
        /\ Len(snap[w].cache) >= 2
        /\ snap[w].cache[1].key = key[w]
        /\ snap[w].read - snap[w].cache[1].timestamp = ttl
        /\ cache[Len(cache)].key = key[w]

\* ------------------------------------------------------------------- C8
EntriesFor(c, k) == {i \in 1..Len(c) : c[i].key = k}

\* C8: two workers can both miss on one key and both call the external
\* analysis (the witness); no key ever has more than one entry, and when a
\* set completes, the one entry of its key holds the value of that set, so
\* the later of two sets is the one that stays.
C8_LaterSetOverwrites ==
    /\ \A k \in AllKeys : Cardinality(EntriesFor(cache, k)) <= 1
    /\ \A w \in Workers :
        pc[w] = "set_unlock" =>
            /\ Cardinality(EntriesFor(cache, key[w])) = 1
            /\ GetItem(cache, key[w]).data = analysis[w]

\* a worker that missed on its key has called the external analysis and has
\* set its result over the result another worker, that missed too, had set
\* for the same key in the meantime
C8_Witness ==
    \E w \in Workers :
        /\ pc[w] = "set_unlock"
        /\ ret[w] = None
        /\ Contains(snap[w].cache, key[w])
        /\ GetItem(snap[w].cache, key[w]).data /= analysis[w]
        /\ GetItem(cache, key[w]).data = analysis[w]

\* ------------------------------------------------------------------- C9
\* C9: the lock is held only by a worker inside a critical section of get,
\* set, clear or stats: never during the external call, nor between the
\* return of the external call and the critical section of set.
C9_NoLockDuringExternalCall ==
    /\ lock /= Unlocked => InCriticalSection(lock)
    /\ \A w \in Workers : pc[w] \in {"ext_call", "set_lock"} => lock /= w

\* while the external call of one worker is in progress, another worker is
\* inside a critical section
C9_Witness ==
    \E w1, w2 \in Workers :
        /\ w1 /= w2
        /\ pc[w1] = "ext_call"
        /\ lock = w2
        /\ InCriticalSection(w2)

\* ------------------------------------------------------------------ C10
MissPath == {"ext_call", "set_lock", "set_evict", "set_unlock", "return_analysis",
             "return_fallback"}

HitPath == {"stats_lock", "stats_read", "stats_unlock", "return_cached"}

LookupPath == {"get_lock", "get_lookup", "get_unlock"}

\* C10: past its cache lookup, an /analyze request is calling the external
\* analysis or set exactly when get returned nothing, and is on the way that
\* returns the cached result, without external call and without set, exactly
\* when get returned a result.
C10_ExternalCallIffMiss ==
    \A w \in Workers :
        handler[w] = "analyze" =>
            /\ pc[w] \in LookupPath \cup MissPath \cup HitPath
            /\ pc[w] \in MissPath => ret[w] = None
            /\ pc[w] \in HitPath => ret[w] /= None

\* a request is being answered from the cache
C10_Witness ==
    \E w \in Workers :
        /\ handler[w] = "analyze"
        /\ pc[w] = "stats_unlock"
        /\ ret[w] /= None

\* ------------------------------------------------------------------ C11
\* the results of successful analyses: created by the external call, with
\* their "status" written
IsAnalysisResult(o) == o \in 1..next_obj /\ ResultItems \subseteq heap[o]

\* a worker of /analyze is inserting: it has passed the loop of set
Inserts(w) == pc[w] = "set_evict" /\ pc'[w] = "set_unlock"

\* C11: an entry is inserted only by a request that missed and whose
\* external analysis returned (every stored value is the result of such an
\* analysis, never the fallback); a request whose analysis failed returns the
\* fallback and its failure leaves the entries as they are, and a cached
\* result that is served is never the fallback.
C11_OnlySuccessfulAnalysesAreCached ==
    /\ [](\A i \in 1..Len(cache) : IsAnalysisResult(cache[i].data))
    /\ [](\A w \in Workers :
            /\ pc[w] \in {"set_lock", "set_evict", "set_unlock"} =>
                   ret[w] = None /\ IsAnalysisResult(analysis[w])
            /\ pc[w] = "return_cached" => IsAnalysisResult(Response(w))
            /\ (pc[w] = "return_fallback" /\ analysis[w] = None) =>
                   Response(w) = Fallback)
    /\ [][\A w \in Workers :
            /\ (pc[w] = "ext_call" /\ pc'[w] = "return_fallback") => cache' = cache
            /\ (\E i \in 1..Len(cache') : cache'[i].data = analysis[w]
                    /\ ~\E j \in 1..Len(cache) : cache[j].data = analysis[w]) =>
                   Inserts(w) /\ ret[w] = None]_vars

\* a request whose analysis failed returns the fallback while the cache holds
\* the result of another request
C11_Witness ==
    \E w \in Workers :
        /\ pc[w] = "return_fallback"
        /\ analysis[w] = None
        /\ Len(cache) >= 1

\* ------------------------------------------------------------------ C12
\* C12 as stated: the value of a stored entry is, at any time, the value that
\* was passed to set (the result with its "status", "score" and
\* "image_info"), and a hit returns that value.
C12_StoredValueIsNeverModified ==
    /\ \A w \in Workers :
           pc[w] \in {"set_lock", "set_evict"} => heap[analysis[w]] = ResultItems
    /\ \A i \in 1..Len(cache) : heap[cache[i].data] = ResultItems
    /\ \A w \in Workers : pc[w] = "return_cached" => heap[Response(w)] = ResultItems

\* C12, what the code does: the dict that was passed to set stays the stored
\* value, and the handlers write to it: the stored value keeps the items it
\* was stored with and gains "_cached", "_cache_stats", "_scan_id", "streak".
C12_StoredValueGainsItems ==
    \A i \in 1..Len(cache) :
        /\ ResultItems \subseteq heap[cache[i].data]
        /\ heap[cache[i].data] \subseteq
               ResultItems \cup {"_cached", "_cache_stats", "_scan_id", "streak"}

\* a hit is about to return the stored dict, which has been written to
C12_Witness ==
    \E w \in Workers :
        /\ pc[w] = "return_cached"
        /\ Contains(cache, key[w])
        /\ GetItem(cache, key[w]).data = ret[w]
        /\ {"_cached", "_cache_stats"} \subseteq heap[ret[w]]

\* ------------------------------------------------------------------ C13
\* the loop of set is at `next(iter(self._cache))` with no entry left
SetRaises(w) == pc[w] = "set_evict" /\ AtCapacity(cache) /\ cache = <<>>

\* C13 as stated: for every capacity the constructor accepts, 0 included, and
\* every cache state, the eviction loop of set finds an entry to remove
\* whenever the cache is at capacity, so set never raises, and no request
\* ends in the fallback because set raised.
C13_SetNeverRaises ==
    \A w \in Workers :
        /\ ~SetRaises(w)
        /\ pc[w] = "return_fallback" => analysis[w] = None

\* C13, what the code does: set raises exactly when the capacity is below 1
\* (the loop empties the cache and then takes the first key of an empty
\* dict); with a capacity of at least 1 the loop stops with room for the
\* entry.
C13_SetRaisesWithoutCapacity ==
    \A w \in Workers :
        pc[w] = "set_evict" =>
            /\ SetRaises(w) => max_size <= 0
            /\ (max_size <= 0 /\ cache = <<>>) => SetRaises(w)
            /\ max_size >= 1 => Len(cache) <= max_size

\* set has been called on a cache of capacity 0
C13_Witness ==
    \E w \in Workers :
        /\ max_size = 0
        /\ handler[w] = "set"
        /\ SetRaises(w)

\* ------------------------------------------------------------------ C14
\* C14 as stated: when set(k) completes, k is the most recently used entry,
\* the last one to be evicted, also when k was already stored.
C14_SetMakesMostRecentlyUsed ==
    \A w \in Workers :
        pc[w] = "set_unlock" => cache[Len(cache)].key = key[w]

\* C14, what the code does: a key that is new when the entry is written is
\* added as the most recently used entry; a key that is still stored when
\* the entry is written keeps the place it had, with the new value and
\* timestamp.
C14_OverwriteKeepsPosition ==
    \A w \in Workers :
        pc[w] = "set_unlock" =>
            LET room == MadeRoom(snap[w].cache)
            IN /\ Len(cache) >= 1
               /\ IF Contains(room, key[w])
                  THEN /\ Len(cache) = Len(room)
                       /\ IndexOf(cache, key[w]) = IndexOf(room, key[w])
                  ELSE /\ Len(cache) = Len(room) + 1
                       /\ cache[Len(cache)].key = key[w]
               /\ GetItem(cache, key[w]).data = analysis[w]
               /\ GetItem(cache, key[w]).timestamp = snap[w].read

\* set has overwritten the least recently used of two entries, which still
\* is the first to be evicted
C14_Witness ==
    \E w \in Workers :
        /\ pc[w] = "set_unlock"
        /\ Len(cache) >= 2
        /\ Len(snap[w].cache) = Len(cache)
        /\ cache[1].key = key[w]
        /\ cache[1].data = analysis[w]
        /\ snap[w].cache[1].data /= analysis[w]

\* ------------------------------------------------------------------ C15
\* C15: clear leaves no entry and leaves hits and misses as they were; a
\* stats that follows reports size 0 and those counters; a get that follows,
\* for any key, is a miss.
C15_ClearEmptiesAndKeepsCounters ==
    \A w \in Workers :
        /\ pc[w] = "clear_unlock" =>
               /\ cache = <<>>
               /\ hits = snap[w].hits
               /\ misses = snap[w].misses
        /\ (pc[w] = "stats_unlock" /\ snap[w].prev = ClearOp) =>
               /\ stats_ret[w].size = 0
               /\ stats_ret[w].hits = hits
               /\ stats_ret[w].misses = misses
        /\ (pc[w] = "get_unlock" /\ snap[w].prev = ClearOp) =>
               /\ ret[w] = None
               /\ misses = snap[w].misses + 1
               /\ hits = snap[w].hits

\* a get misses right after a clear, on a key that was set and whose ttl has
\* not passed, after gets that hit and missed
C15_Witness ==
    \E w \in Workers :
        /\ pc[w] = "get_unlock"
        /\ snap[w].prev = ClearOp
        /\ last_set[key[w]] /= -1
        /\ snap[w].read - last_set[key[w]] <= ttl
        /\ snap[w].hits >= 1
        /\ ret[w] = None

\* ------------------------------------------------------------------ C16
\* the gets that have counted, returned or about to return
CountedGets == gets + Cardinality({w \in Workers : pc[w] = "get_unlock"})

\* C16: under any interleaving, hits + misses is the number of gets that have
\* counted, and what stats reports is the number of gets that have returned;
\* each get adds exactly 1 to exactly one of the counters; the
\* counters never decrease and change only in a step of get, never while
\* set, clear or stats hold the lock.
C16_CountersCountGets ==
    /\ [](hits + misses = CountedGets)
    /\ [](\A w \in Workers :
            pc[w] = "stats_unlock" => stats_ret[w].hits + stats_ret[w].misses = gets)
    /\ [](\A w \in Workers :
            pc[w] = "get_unlock" =>
                \/ hits = snap[w].hits + 1 /\ misses = snap[w].misses
                \/ hits = snap[w].hits /\ misses = snap[w].misses + 1)
    /\ [][/\ hits' >= hits
          /\ misses' >= misses
          /\ <<hits', misses'>> /= <<hits, misses>> =>
                 \E w \in Workers : pc[w] = "get_lookup" /\ pc'[w] = "get_unlock"
          /\ (lock /= Unlocked /\ pc[lock] \notin {"get_lookup", "get_unlock"}) =>
                 <<hits', misses'>> = <<hits, misses>>]_vars

\* gets of two workers have hit and missed, one of them has not returned yet
\* while the other worker is inside /analyze
C16_Witness ==
    \E w1, w2 \in Workers :
        /\ w1 /= w2
        /\ pc[w1] = "get_unlock"
        /\ pc[w2] \in {"ext_call", "set_lock", "stats_lock"}
        /\ hits >= 1
        /\ misses >= 2

\* ------------------------------------------------------------------ C17
\* stats has left the entries, their order and the counters as it found them
\* and reports the size and the counters
StatsReportsState(w) ==
    /\ <<cache, hits, misses>> = <<snap[w].cache, snap[w].hits, snap[w].misses>>
    /\ stats_ret[w].size = Len(cache)
    /\ stats_ret[w].max_size = max_size
    /\ stats_ret[w].hits = hits
    /\ stats_ret[w].misses = misses
    /\ stats_ret[w].ttl_seconds = ttl

\* C17 as stated: stats reports the size and the counters, changes nothing,
\* and hit_rate is 100 * hits / (hits + misses), 0 without lookups
\* (hit_rate is in tenths of a percent).
C17_HitRateIsExactQuotient ==
    \A w \in Workers :
        pc[w] = "stats_unlock" =>
            /\ StatsReportsState(w)
            /\ stats_ret[w].hit_rate * (hits + misses) = 1000 * hits

\* C17 amended: stats reports the size and the counters, changes nothing, and
\* hit_rate is 100 * hits / (hits + misses) rounded to one decimal: the
\* nearest tenth of a percent, 0 without lookups.
C17_HitRateIsRoundedQuotient ==
    \A w \in Workers :
        pc[w] = "stats_unlock" =>
            LET total == hits + misses
                error == stats_ret[w].hit_rate * total - 1000 * hits
            IN /\ StatsReportsState(w)
               /\ total = 0 => stats_ret[w].hit_rate = 0
               /\ 2 * error <= total
               /\ -2 * error <= total

\* stats reports a hit rate that has more than one decimal, over a cache that
\* holds entries
C17_Witness ==
    \E w \in Workers :
        /\ pc[w] = "stats_unlock"
        /\ cache /= <<>>
        /\ (1000 * hits) % (hits + misses) /= 0
        /\ stats_ret[w].hit_rate \in {333, 667}

\* ------------------------------------------------------------------ C18
Items(p) == {p[i] : i \in 1..Len(p)}

\* two dicts with the same key/value pairs
SameItems(p1, p2) == Len(p1) = Len(p2) /\ Items(p1) = Items(p2)

\* the dicts with the items of p, in every insertion order
Orderings(p) == {q \in [1..Len(p) -> Items(p)] : Items(q) = Items(p)}

KeyIgnoresOrder ==
    \A image \in Images : \A p \in {ProfileP, ProfileQ} : \A q \in Orderings(p) :
        GenerateKey(image, q) = GenerateKey(image, p)

\* the worker is inside get or set
InGetOrSet(w) ==
    pc[w] \in {"get_lock", "get_lookup", "get_unlock", "set_lock", "set_evict", "set_unlock"}

\* the get of w is the first operation after a set for the same image and a
\* profile with the same items, and reads the clock within ttl of that set
FollowsSetOfSameItems(w) ==
    /\ pc[w] = "get_unlock"
    /\ snap[w].prev.at >= 0
    /\ snap[w].prev.form.image = req[w].image
    /\ SameItems(snap[w].prev.form.user_data, req[w].user_data)
    /\ snap[w].read - snap[w].prev.at <= ttl

\* C18: for every image, the profiles with the same items in any insertion
\* order have the same key; the key that get or set uses is that function of
\* the image and the profile only, whatever the entries, the counters and the
\* clock; and with capacity >= 1 a get that follows a set with the same image
\* and the same items, in any order, hits and returns the result that was
\* set.
C18_KeyIgnoresInsertionOrder ==
    /\ KeyIgnoresOrder
    /\ \A w \in Workers :
        /\ InGetOrSet(w) => key[w] = GenerateKey(req[w].image, req[w].user_data)
        /\ (FollowsSetOfSameItems(w) /\ max_size >= 1) =>
               /\ ret[w] = snap[w].prev.data
               /\ hits = snap[w].hits + 1
               /\ misses = snap[w].misses

\* a get with the items in one order has hit the entry that was set with the
\* items in another order, after gets that were counted
C18_Witness ==
    \E w \in Workers :
        /\ FollowsSetOfSameItems(w)
        /\ snap[w].prev.form.user_data = ProfileP
        /\ req[w].user_data = ProfileP2
        /\ Len(req[w].image) = MaxImageLen
        /\ ret[w] = snap[w].prev.data
        /\ now >= 1

\* ------------------------------------------------------------------ C19
\* two images of at least 2 * SampleWindow bytes with the same first and the
\* same last SampleWindow bytes
AgreeOnWindows(b1, b2) ==
    /\ Len(b1) >= 2 * SampleWindow
    /\ Len(b2) >= 2 * SampleWindow
    /\ SubSeq(b1, 1, SampleWindow) = SubSeq(b2, 1, SampleWindow)
    /\ SubSeq(b1, Len(b1) - SampleWindow + 1, Len(b1))
           = SubSeq(b2, Len(b2) - SampleWindow + 1, Len(b2))

KeyIgnoresMiddle ==
    \A b1, b2 \in Images : \A p \in {ProfileP, ProfileQ} :
        AgreeOnWindows(b1, b2) => GenerateKey(b1, p) = GenerateKey(b2, p)

\* the get of w is the first operation after a set for the same profile and
\* another image with the same windows, and reads the clock within ttl of
\* that set
FollowsSetOfAlikeImage(w) ==
    /\ pc[w] = "get_unlock"
    /\ snap[w].prev.at >= 0
    /\ snap[w].prev.form.image /= req[w].image
    /\ AgreeOnWindows(snap[w].prev.form.image, req[w].image)
    /\ snap[w].prev.form.user_data = req[w].user_data
    /\ snap[w].read - snap[w].prev.at <= ttl

\* C19: two images of at least 2N bytes with the same first N and the same
\* last N bytes have the same key for the same profile, whatever lies
\* between; with capacity >= 1 a get with one of them that follows a set with
\* the other hits and returns the result of the other image.
C19_KeyIgnoresMiddleOfImage ==
    /\ KeyIgnoresMiddle
    /\ \A w \in Workers :
        (FollowsSetOfAlikeImage(w) /\ max_size >= 1) =>
            /\ ret[w] = snap[w].prev.data
            /\ hits = snap[w].hits + 1
            /\ misses = snap[w].misses

\* a get has returned the result that was set for an image of the same
\* length with another byte in the middle
C19_Witness ==
    \E w \in Workers :
        /\ FollowsSetOfAlikeImage(w)
        /\ Len(req[w].image) = Len(snap[w].prev.form.image)
        /\ \E i \in 1..Len(req[w].image) : req[w].image[i] /= snap[w].prev.form.image[i]
        /\ ret[w] = snap[w].prev.data

\* ------------------------------------------------------------------ C20
\* the sample of an image no longer than the window is the image, twice; any
\* sample is two windows of bytes of the image
SampleOfEveryImage ==
    \A b \in Images :
        LET sample == ImageSample(b)
            n == Min(SampleWindow, Len(b))
        IN /\ Len(sample) = 2 * n
           /\ SubSeq(sample, 1, n) = SubSeq(b, 1, n)
           /\ SubSeq(sample, n + 1, 2 * n) = SubSeq(b, Len(b) - n + 1, Len(b))
           /\ Len(b) <= SampleWindow => sample = b \o b

\* the get of w is the first operation after a set for the same image and
\* profile, and reads the clock within ttl of that set
FollowsSetOfSameForm(w) ==
    /\ pc[w] = "get_unlock"
    /\ snap[w].prev.at >= 0
    /\ snap[w].prev.form = req[w]
    /\ snap[w].read - snap[w].prev.at <= ttl

\* C20: every byte string has a sample and so a key, the empty string and the
\* strings shorter than the window included; every get and set that is
\* called goes on with the key of its arguments; and with capacity >= 1 a get
\* that follows the set of the same image and profile hits and returns the
\* result, for these images as for any other.
C20_KeyOfEveryImage ==
    /\ SampleOfEveryImage
    /\ \A w \in Workers :
        /\ handler[w] \in {"get", "set"} =>
               /\ InGetOrSet(w)
               /\ key[w] = <<Md5(ImageSample(req[w].image)), Md5(JsonDumps(req[w].user_data))>>
        /\ (FollowsSetOfSameForm(w) /\ max_size >= 1) =>
               /\ ret[w] = snap[w].prev.data
               /\ hits = snap[w].hits + 1
               /\ misses = snap[w].misses

\* a get has returned what was set for an image that is shorter than the
\* window and not empty
C20_Witness ==
    \E w \in Workers :
        /\ FollowsSetOfSameForm(w)
        /\ Len(req[w].image) >= 1
        /\ Len(req[w].image) < SampleWindow
        /\ ret[w] = snap[w].prev.data

\* C20, the empty image: a get has returned what was set for it
C20_WitnessEmpty ==
    \E w \in Workers :
        /\ FollowsSetOfSameForm(w)
        /\ req[w].image = <<>>
        /\ ret[w] = snap[w].prev.data

\* ------------------------------------------------------------------ C22
\* the set of w has found its key stored
Overwrites(w) == pc[w] = "set_unlock" /\ Contains(snap[w].cache, key[w])

\* C22 as stated: a set for a key that is stored replaces the value and the
\* timestamp of that key and removes no other entry: the stored keys are the
\* same before and after the call, also when the cache is at capacity.
C22_OverwriteKeepsEveryKey ==
    \A w \in Workers :
        Overwrites(w) =>
            /\ Keys(cache) = Keys(snap[w].cache)
            /\ GetItem(cache, key[w]).data = analysis[w]
            /\ GetItem(cache, key[w]).timestamp = snap[w].read
            /\ \A k \in Keys(snap[w].cache) \ {key[w]} :
                   GetItem(cache, k) = GetItem(snap[w].cache, k)

\* C22, what the code does: the loop of set does not look at the key. Below
\* capacity a set for a stored key replaces its value and timestamp and
\* removes nothing; at capacity it first evicts the least recently used
\* entry, whichever key that is, and the cache is left one entry short unless
\* the evicted entry was the one of the key itself.
C22_OverwriteAtCapacityEvicts ==
    \A w \in Workers :
        Overwrites(w) =>
            LET before == snap[w].cache
                kept == IF Len(before) < max_size THEN Keys(before)
                        ELSE Keys(before) \ {before[1].key}
            IN /\ Keys(cache) = kept \cup {key[w]}
               /\ GetItem(cache, key[w]).data = analysis[w]
               /\ GetItem(cache, key[w]).timestamp = snap[w].read
               /\ \A k \in kept \ {key[w]} : GetItem(cache, k) = GetItem(before, k)

\* a set for a stored key has evicted the entry of another key from a full
\* cache, which is left with one entry less
C22_Witness ==
    \E w \in Workers :
        /\ Overwrites(w)
        /\ max_size >= 2
        /\ Len(snap[w].cache) = max_size
        /\ snap[w].cache[1].key /= key[w]
        /\ ~Contains(cache, snap[w].cache[1].key)
        /\ Len(cache) = max_size - 1

\* ------------------------------------------------------------------ C23
\* every stored entry carries the time of the latest set of its key
TimestampIsLatestSet ==
    \A i \in 1..Len(cache) : cache[i].timestamp = last_set[cache[i].key]

\* C23: the age of an entry runs from the latest set of its key: a get that
\* finds the key stored returns it exactly when at most ttl has passed since
\* that set, however often it was hit; a hit leaves the timestamp as it was,
\* and a set, also one that overwrites, stores the time of the set.
C23_AgeRunsFromLatestSet ==
    /\ TimestampIsLatestSet
    /\ \A w \in Workers :
        /\ (pc[w] = "get_unlock" /\ Contains(snap[w].cache, key[w])) =>
               /\ ret[w] /= None <=> snap[w].read - last_set[key[w]] <= ttl
               /\ ret[w] /= None =>
                      GetItem(cache, key[w]).timestamp
                          = GetItem(snap[w].cache, key[w]).timestamp
        /\ pc[w] = "set_unlock" =>
               /\ GetItem(cache, key[w]).timestamp = snap[w].read
               /\ last_set[key[w]] = snap[w].read

\* a get refuses the entry of the only key that was ever set, which was set
\* once and has been hit since: more than ttl has passed since the set
C23_Witness ==
    \E w \in Workers :
        /\ pc[w] = "get_unlock"
        /\ Contains(snap[w].cache, key[w])
        /\ ret[w] = None
        /\ hits >= 1
        /\ ~re_set
        /\ \A k \in AllKeys \ {key[w]} : last_set[k] = -1
        /\ snap[w].read - last_set[key[w]] > ttl

\* C23, the overwrite: a set has replaced an entry that was older than ttl by
\* one with the time of the set
C23_WitnessOverwrite ==
    \E w \in Workers :
        /\ Overwrites(w)
        /\ snap[w].read - GetItem(snap[w].cache, key[w]).timestamp > ttl
        /\ Contains(cache, key[w])
        /\ GetItem(cache, key[w]).timestamp = snap[w].read

\* ------------------------------------------------------------------ C29
\* the entries of c that are older than ttl at time t
Expired(c, t) == {i \in 1..Len(c) : IsExpired(c[i].timestamp, t)}

\* C29: expiry removes nothing by itself. A get removes at most the entry of
\* its own key, the loop of set removes entries from the least recently used
\* end whatever their age, and clear removes all: an expired entry of another
\* key stays stored through a get, stats counts it in size, and the loop of
\* set counts it against the capacity.
C29_EvictionIgnoresExpiry ==
    \A w \in Workers :
        /\ pc[w] = "get_unlock" =>
               \A k \in Keys(snap[w].cache) \ {key[w]} :
                   /\ Contains(cache, k)
                   /\ GetItem(cache, k) = GetItem(snap[w].cache, k)
        /\ pc[w] = "stats_unlock" => stats_ret[w].size = Len(snap[w].cache)
        /\ pc[w] = "set_unlock" =>
               LET before == snap[w].cache
                   full == Len(before) >= max_size
               IN /\ (full /\ before[1].key /= key[w]) =>
                          ~Contains(cache, before[1].key)
                  /\ \A i \in (IF full THEN 2 ELSE 1)..Len(before) :
                         before[i].key /= key[w] =>
                             /\ Contains(cache, before[i].key)
                             /\ GetItem(cache, before[i].key) = before[i]

\* a set into a full cache has evicted an entry that was not older than ttl
\* and has kept an entry that was
C29_Witness ==
    \E w \in Workers :
        /\ pc[w] = "set_unlock"
        /\ Len(snap[w].cache) = max_size
        /\ ~Contains(snap[w].cache, key[w])
        /\ ~IsExpired(snap[w].cache[1].timestamp, snap[w].read)
        /\ ~Contains(cache, snap[w].cache[1].key)
        /\ \E i \in Expired(snap[w].cache, snap[w].read) :
               /\ Contains(cache, snap[w].cache[i].key)
               /\ GetItem(cache, snap[w].cache[i].key) = snap[w].cache[i]

\* C29, the size: stats counts an expired entry
C29_WitnessStats ==
    \E w \in Workers :
        /\ pc[w] = "stats_unlock"
        /\ Expired(cache, now) /= {}
        /\ stats_ret[w].size = Len(cache)

\* C29, the get: a get for another key has left an expired entry stored
C29_WitnessGet ==
    \E w \in Workers :
        /\ pc[w] = "get_unlock"
        /\ \E i \in Expired(snap[w].cache, snap[w].read) :
               /\ snap[w].cache[i].key /= key[w]
               /\ Contains(cache, snap[w].cache[i].key)

\* ------------------------------------------------------------------ C30
\* an image of at most 2N bytes: every byte lies in a window
IsShort(b) == Len(b) <= 2 * SampleWindow

\* the get of w is the first operation after a set for the same profile and
\* another image, both of at most 2N bytes, and reads the clock within ttl of
\* that set
FollowsSetOfOtherShortImage(w) ==
    /\ pc[w] = "get_unlock"
    /\ snap[w].prev.at >= 0
    /\ snap[w].prev.form.image /= req[w].image
    /\ IsShort(snap[w].prev.form.image)
    /\ IsShort(req[w].image)
    /\ snap[w].prev.form.user_data = req[w].user_data
    /\ snap[w].read - snap[w].prev.at <= ttl

\* C30 as stated: two different images of at most 2N bytes each never have
\* the same sample, also when their lengths differ: a get with one of them
\* never has the key of, nor returns the result of, a set with the other.
C30_ShortImagesNeverCollide ==
    \A w \in Workers :
        FollowsSetOfOtherShortImage(w) =>
            /\ ImageSample(req[w].image) /= ImageSample(snap[w].prev.form.image)
            /\ key[w] /= snap[w].prev.key
            /\ ret[w] = None

\* two images of at least N bytes and of different lengths, with the same
\* first N and the same last N bytes
AlikeAcrossLengths(b1, b2) ==
    /\ Len(b1) /= Len(b2)
    /\ Len(b1) >= SampleWindow
    /\ Len(b2) >= SampleWindow
    /\ SliceHead(b1, SampleWindow) = SliceHead(b2, SampleWindow)
    /\ SliceTail(b1, SampleWindow) = SliceTail(b2, SampleWindow)

ShortImagesCollideAcrossLengths ==
    \A b1, b2 \in Images :
        (b1 /= b2 /\ IsShort(b1) /\ IsShort(b2)) =>
            (ImageSample(b1) = ImageSample(b2) <=> AlikeAcrossLengths(b1, b2))

\* C30 amended: two different images of at most 2N bytes and of the same
\* length never have the same sample; two of different lengths have the same
\* sample exactly when both have at least N bytes and have the same first N
\* and the same last N bytes. With capacity >= 1 a get with one image that
\* follows the set of another returns the result of the other exactly then.
C30_ShortImagesCollideOnlyAcrossLengths ==
    /\ ShortImagesCollideAcrossLengths
    /\ \A w \in Workers :
        (FollowsSetOfOtherShortImage(w) /\ max_size >= 1) =>
            IF AlikeAcrossLengths(req[w].image, snap[w].prev.form.image)
            THEN key[w] = snap[w].prev.key /\ ret[w] = snap[w].prev.data
            ELSE key[w] /= snap[w].prev.key /\ ret[w] = None

\* a get with an image of N + 1 bytes has returned the result that was set
\* for an image of N bytes
C30_Witness ==
    \E w \in Workers :
        /\ FollowsSetOfOtherShortImage(w)
        /\ Len(snap[w].prev.form.image) = SampleWindow
        /\ Len(req[w].image) = SampleWindow + 1
        /\ ret[w] = snap[w].prev.data
        /\ ret[w] /= None

\* ------------------------------------------------------------------ C21
\* the step is the raise of TypeError in the get or set of w
RaisesKeyError(w) == pc[w] /= "key_error" /\ pc'[w] = "key_error"

\* C21: a get or set whose profile cannot be serialized ends with the
\* TypeError of json.dumps, never inside the lookup or the insertion and
\* never as a miss; the raise and the return of the error leave the entries,
\* their order, the counters and the lock as they are, the worker does not
\* hold the lock, and the operations of the other worker and the later ones
\* run on a cache that is as if the call had not been made.
C21_UnserializableProfileRaises ==
    /\ [](\A w \in Workers :
            /\ pc[w] = "key_error" =>
                   /\ ~Serializable(req[w].user_data)
                   /\ lock /= w
                   /\ ret[w] = None
                   /\ key[w] = NoKey
            /\ (InGetOrSet(w) /\ handler[w] \in {"get", "set"}) =>
                   Serializable(req[w].user_data))
    /\ [](lock /= Unlocked => InCriticalSection(lock))
    /\ [][\A w \in Workers :
            /\ RaisesKeyError(w) =>
                   /\ pc[w] = "idle"
                   /\ <<cache, hits, misses, lock, gets, recency, last_set>>'
                          = <<cache, hits, misses, lock, gets, recency, last_set>>
            /\ (pc[w] = "key_error" /\ pc'[w] /= "key_error") =>
                   /\ pc'[w] = "idle"
                   /\ <<cache, hits, misses, lock, gets, recency, last_set>>'
                          = <<cache, hits, misses, lock, gets, recency, last_set>>]_vars

\* the get of one worker has raised while the other worker is inside its
\* get, which has hit and holds the lock
C21_Witness ==
    \E w1, w2 \in Workers :
        /\ pc[w1] = "key_error"
        /\ handler[w1] = "get"
        /\ pc[w2] = "get_unlock"
        /\ lock = w2
        /\ ret[w2] /= None

\* C21, set: the set of a worker has raised and the cache holds what was set
\* before
C21_WitnessSet ==
    \E w \in Workers :
        /\ pc[w] = "key_error"
        /\ handler[w] = "set"
        /\ cache /= <<>>
        /\ lock = Unlocked

\* ------------------------------------------------------------------ C25
\* the calls of check_rate_limit for ip before call j that were allowed
AllowedBefore(ip, j) == {i \in 1..(j - 1) : rate_log[i].ip = ip /\ rate_log[i].allowed}

\* the allowed requests of ip with a timestamp from a to b
AllowedWithin(ip, a, b) ==
    {i \in 1..Len(rate_log) :
        /\ rate_log[i].ip = ip
        /\ rate_log[i].allowed
        /\ a <= rate_log[i].at
        /\ rate_log[i].at <= b}

\* C25: for every IP, the allowed requests with a timestamp in any interval
\* shorter than the window number at most RATE_LIMIT_REQUESTS; a request is
\* allowed exactly when fewer than RATE_LIMIT_REQUESTS allowed requests of
\* its own IP are younger than the window, whatever was denied before and
\* whatever other IPs have sent; the list of an IP holds timestamps of its
\* allowed requests only.
C25_RateLimitIsPerClientSlidingWindow ==
    /\ \A ip \in ClientIps : \A a \in 0..MaxRateTime :
           Cardinality(AllowedWithin(ip, a, a + RATE_LIMIT_WINDOW - 1)) <= RATE_LIMIT_REQUESTS
    /\ \A j \in 1..Len(rate_log) :
           rate_log[j].allowed <=>
               Cardinality({i \in AllowedBefore(rate_log[j].ip, j) :
                               rate_log[j].at - rate_log[i].at < RATE_LIMIT_WINDOW})
                   < RATE_LIMIT_REQUESTS
    /\ \A ip \in ClientIps :
           /\ Len(rate_limit_store[ip]) <= RATE_LIMIT_REQUESTS
           /\ Len(rate_limit_store[ip]) <= Cardinality(AllowedBefore(ip, Len(rate_log) + 1))
           /\ \A n \in 1..Len(rate_limit_store[ip]) :
                  \E i \in AllowedBefore(ip, Len(rate_log) + 1) :
                      rate_log[i].at = rate_limit_store[ip][n]

\* an IP that was allowed, then denied at its limit, is allowed again once
\* its oldest request is a window old, one tick after a denial; another IP
\* has been allowed in the meantime
C25_Witness ==
    \E j, k, m, o \in 1..Len(rate_log) :
        /\ j < k
        /\ k < m
        /\ rate_log[j].ip = rate_log[k].ip
        /\ rate_log[k].ip = rate_log[m].ip
        /\ rate_log[o].ip /= rate_log[j].ip
        /\ rate_log[j].allowed
        /\ ~rate_log[k].allowed
        /\ rate_log[m].allowed
        /\ rate_log[m].at = rate_log[k].at + 1
        /\ rate_log[o].allowed
        /\ rate_log[o].at = rate_log[k].at

\* ------------------------------------------------------------------ C26
\* the attempts of the call so far
Attempts == SelectSeq(gemini_log, LAMBDA ev : ev.kind /= "sleep")

Sleeps == SelectSeq(gemini_log, LAMBDA ev : ev.kind = "sleep")

\* in the log an attempt and a sleep alternate, beginning with an attempt,
\* and every sleep follows an attempt that failed
SleepsOnlyBetweenAttempts ==
    \A i \in 1..Len(gemini_log) :
        IF i % 2 = 1
        THEN gemini_log[i].kind /= "sleep" /\ gemini_log[i].attempt = (i - 1) \div 2
        ELSE /\ gemini_log[i].kind = "sleep"
             /\ gemini_log[i - 1].kind = "error"
             /\ gemini_log[i].value = 2 ^ gemini_log[i - 1].attempt

\* C26: the call makes at most GEMINI_MAX_RETRIES + 1 attempts and ends; it
\* returns the text of the first attempt that succeeded, which is its last
\* attempt; it sleeps between two attempts only, never after the last one;
\* and when it raises, every one of the GEMINI_MAX_RETRIES + 1 attempts has
\* failed and the exception is that of the last attempt.
C26_RetryIsBounded ==
    /\ [](/\ Len(Attempts) <= GEMINI_MAX_RETRIES + 1
          /\ SleepsOnlyBetweenAttempts
          /\ \A i \in 1..(Len(Attempts) - 1) : Attempts[i].kind = "error"
          /\ gemini_pc = "returned" =>
                 /\ gemini_log[Len(gemini_log)].kind = "text"
                 /\ gemini_ret = [kind |-> "text", value |-> gemini_log[Len(gemini_log)].value]
                 /\ Len(Sleeps) = Len(Attempts) - 1
          /\ gemini_pc = "raised" =>
                 /\ Len(Attempts) = GEMINI_MAX_RETRIES + 1
                 /\ gemini_log[Len(gemini_log)].kind = "error"
                 /\ gemini_ret = [kind |-> "error", value |-> gemini_log[Len(gemini_log)].value]
                 /\ Len(Sleeps) = GEMINI_MAX_RETRIES)
    /\ [][(gemini_pc \in {"returned", "raised"}) => gemini_log' = gemini_log]_vars
    /\ (gemini_pc = "attempt") ~> (gemini_pc \in {"returned", "raised"})

\* every attempt has failed, with different exceptions, and the call has
\* raised the last one after two sleeps
C26_Witness ==
    /\ gemini_pc = "raised"
    /\ Len(Attempts) = GEMINI_MAX_RETRIES + 1
    /\ Attempts[1].value /= Attempts[Len(Attempts)].value
    /\ gemini_ret.value = Attempts[Len(Attempts)].value
    /\ Len(Sleeps) = GEMINI_MAX_RETRIES

\* C26, success: the call has returned the text of its second attempt
C26_WitnessRetried ==
    /\ gemini_pc = "returned"
    /\ Len(Attempts) = 2
    /\ Len(Sleeps) = 1
    /\ gemini_ret.kind = "text"

\* ------------------------------------------------------------------ C24
\* the request of w has been refused by the tier check
RefusedByTier(w) == pc[w] = "tier_429"

\* the request of w has gone through the tier check
Checked(w) == user_profile[w] /= NoDoc

\* the tier of the user has a limit and the count has reached it
AtLimit(profile) ==
    /\ ScansPerDay(profile.tier) /= -1
    /\ profile.scans_today >= ScansPerDay(profile.tier)

\* C24 as stated: the daily count is reset when a new day starts, so a
\* request is refused with 429 by the tier check only because of scans of
\* the day of the request: the count that was tested is of that day.
C24_RefusedOnlyForScansOfTheDay ==
    \A w \in Workers :
        RefusedByTier(w) => user_profile[w].last_scan_date = checked_on[w]

\* C24, what the code does: the tier check tests the stored scans_today and
\* never the date: a request is refused exactly when the stored count has
\* reached the limit of the tier, on whatever day the count was written. A
\* new day changes no document, and the count of a user is written only by
\* increment_scan_count in a request of that user that got past the check.
C24_LimitOutlastsTheDay ==
    /\ [](\A w \in Workers :
             Checked(w) => (RefusedByTier(w) <=> AtLimit(user_profile[w])))
    /\ [][today' /= today => users' = users]_vars
    /\ [][\A u \in UserIds :
              users'[u].scans_today /= users[u].scans_today =>
                  \E w \in Workers :
                      /\ user_id[w] = u
                      /\ pc[w] = "increment_write"
                      /\ pc'[w] = "update_streak"
                      /\ Checked(w)
                      /\ ~AtLimit(user_profile[w])]_vars

\* a user who used the scans of the tier on an earlier day is refused on a
\* later day
C24_Witness ==
    \E w \in Workers :
        /\ RefusedByTier(w)
        /\ user_profile[w].tier = "free"
        /\ user_profile[w].scans_today = ScansPerDay("free")
        /\ user_profile[w].last_scan_date /= NoDate
        /\ user_profile[w].last_scan_date < checked_on[w]
        /\ today = checked_on[w]

\* ------------------------------------------------------------------ C28
\* the users of a tier with a limit
Limited == {u \in UserIds : ScansPerDay(users[u].tier) /= -1}

\* C28 as stated: for a user of a tier with a limit, the number of requests
\* of one day that pass the tier check, and the stored scans_today, never
\* exceed the limit, however the concurrent requests of the user interleave
\* between the check and the increment.
C28_CountNeverExceedsLimit ==
    \A u \in Limited :
        /\ users[u].scans_today <= ScansPerDay(users[u].tier)
        /\ \A d \in Days : passed[u][d] <= ScansPerDay(users[u].tier)

\* C28, what the code does: the check and the increment are separate reads
\* and writes of the document. Every request passes on a stored count below
\* the limit, so the stored count exceeds the limit by less than the number
\* of workers, and a write takes it over the limit only when another
\* request of the user has written the count since the check of the writer.
C28_CountExceedsLimitByRequestsInFlight ==
    /\ \A u \in Limited :
           users[u].scans_today <= ScansPerDay(users[u].tier) - 1 + NumWorkers
    /\ \A w \in Workers :
           (pc[w] = "increment_write" /\ user_id[w] \in Limited) =>
               LET limit == ScansPerDay(users[user_id[w]].tier)
               IN /\ user_profile[w].scans_today < limit
                  /\ new_count[w].scans_today > limit =>
                         user_profile[w].scans_today + 1 < new_count[w].scans_today

\* two requests of a free user with one scan left have both passed the
\* check and both incremented: the stored count is over the limit
C28_Witness ==
    \E u \in Limited :
        /\ users[u].tier = "free"
        /\ users[u].last_scan_date = today
        /\ users[u].scans_today = ScansPerDay("free") + 1
        /\ passed[u][today] = ScansPerDay("free") + 1
        /\ \A w \in Workers : user_id[w] = u /\ pc[w] \in {"update_streak", "return_analysis"}

\* ------------------------------------------------------------------ C27
\* w is about to return the dict of an analysis
ReturnsResult(w) == pc[w] \in {"return_cached", "return_analysis"}

\* the scans that were saved with the dict o as their "full_analysis"
ScansOf(o) == {i \in 1..Len(scans) : scans[i].full_analysis = o}

\* C27 as stated: a response never holds per-user items that were produced
\* for another caller: the "_scan_id" of a response is that of a scan of the
\* caller and its "streak" is the streak of the caller, also on a cache hit.
C27_ResponseHoldsOnlyItemsOfTheCaller ==
    \A w \in Workers :
        ReturnsResult(w) =>
            LET f == fields[Response(w)]
            IN /\ f.scan_id /= 0 => scans[f.scan_id].user_id = user_id[w]
               /\ f.streak /= NoStreak => f.streak.uid = user_id[w]

\* C27, what the code does: the per-user items are written to the dict that
\* the cache has stored, so they belong to the entry. The "_scan_id" of a
\* response is the scan of the request that made the analysis, which on the
\* miss path is the caller's own, and its "streak" is that of a user who has
\* saved a scan of this dict, whoever the caller is. A signed-in caller
\* finds both items in the response of a miss, and a streak in that of a hit.
C27_ResponseHoldsItemsOfTheEntry ==
    \A w \in Workers :
        ReturnsResult(w) =>
            LET o == Response(w)
                f == fields[o]
            IN /\ f.scan_id /= 0 => f.scan_id \in ScansOf(o)
               /\ f.streak /= NoStreak =>
                      \E i \in ScansOf(o) : scans[i].user_id = f.streak.uid
               /\ pc[w] = "return_analysis" =>
                      IF user_id[w] = NoUser
                      THEN f.scan_id = 0
                      ELSE /\ f.scan_id \in ScansOf(o)
                           /\ scans[f.scan_id].user_id = user_id[w]
                           /\ f.streak /= NoStreak
               /\ (pc[w] = "return_cached" /\ user_id[w] /= NoUser) => f.streak /= NoStreak

\* a signed-in caller is served from the cache the "_scan_id" of the scan of
\* another user, whose request made the entry
C27_Witness ==
    \E w \in Workers :
        /\ pc[w] = "return_cached"
        /\ user_id[w] /= NoUser
        /\ fields[ret[w]].scan_id /= 0
        /\ scans[fields[ret[w]].scan_id].user_id /= user_id[w]
        /\ fields[ret[w]].streak.uid = user_id[w]

\* a caller who is not signed in is served from the cache the "_scan_id" and
\* the "streak" of the user whose request made the entry
C27_WitnessAnonymous ==
    \E w \in Workers :
        /\ pc[w] = "return_cached"
        /\ user_id[w] = NoUser
        /\ fields[ret[w]].scan_id /= 0
        /\ fields[ret[w]].streak.uid \in UserIds

====
